---- MODULE Spec2Model ----
(***************************************************************************)
(* Model of the scan-and-report engine of src/log_hightlight.py:           *)
(*   - ScanWorker.run  (job thread): pool of scan_file tasks, collection   *)
(*     with as_completed, sort, time-window segment writer;                *)
(*   - ScanWorker.stop (calling thread): flag, pool shutdown, removal of   *)
(*     the temp files known to the bookkeeping map;                        *)
(*   - ScanWorker.process_line / Keyword.to_group: substring pre-filter    *)
(*     and combined pattern.                                               *)
(* Timestamps are counted in ticks, TicksPerHour ticks to the hour.        *)
(* A report file is named by its window <<start, end>>; a temp file by the *)
(* number mkstemp gave it.  File-system semantics are POSIX (a removed     *)
(* file that is still open stays writable through its file object).        *)
(***************************************************************************)
EXTENDS Integers, Sequences, FiniteSets, TLC

(***************************************************************************)
(* Bounds of the model                                                     *)
(***************************************************************************)
MaxRecs == 2           \* matched lines of all files together
MaxHour == 1           \* timestamps lie in the hours 0..MaxHour
MaxResultsCfg == 2     \* config_params["max_results"] ranges over 1..MaxResultsCfg
MaxOutputFilesCfg == 2 \* max_output_files ranges over 1..MaxOutputFilesCfg
MaxKeywords == 2       \* keywords of one analysis
MaxRawLen == 2         \* characters of a keyword text
MaxLineLen == 3        \* characters of a log line
LineCut == 2           \* stands for the 2000 of process_line (line 409), scaled to the lines
TsLen == 2             \* stands for the 18 of process_line (line 412), scaled to the lines
MaxRegexErrors == 1    \* analyses that end at a pattern that does not compile
MaxFileLen == 4        \* characters of a file
MaxChunk == 3          \* config_params["chunk_size"] ranges over 1..MaxChunk
MaxFaultAt == 2        \* a read that fails is one of the first MaxFaultAt reads
MaxCores == 17         \* spin_cores ranges over 1..MaxCores
MaxPoolFiles == 34     \* a job has 1..MaxPoolFiles files
MaxTimeouts == 1       \* a second analysis starts after at most MaxTimeouts timeouts
MaxThreads == 4        \* KeywordScanThread objects created

\* The job scans two files, so that the order in which their tasks complete
\* is open.
Files == {1, 2}
NumFiles == Cardinality(Files)

\* Inside an hour two instants are told apart: the top of the hour and a
\* later one.
InHour == {0, 1}
TicksPerHour == Cardinality(InHour)
MaxTick == MaxHour * TicksPerHour + (TicksPerHour - 1)

\* config_params["time_range_hours"]: windows of one hour, the default, and
\* windows longer than an hour.
TimeRangeHours == {1, 2}

(***************************************************************************)
(* Values                                                                  *)
(***************************************************************************)
\* Python's None for the integer-valued locals of run()
None == -1
\* no path / no file object (current_temp_file = None, close_temp_file -> None)
NoFile == 0
NoName == <<>>
\* datetime.datetime.min, smaller than every parsed timestamp
DatetimeMin == -1

\* The 18-character timestamp field of a record: a text that parses to `tick`,
\* or a text that strptime rejects.
TsFields ==
    [wellformed : {TRUE}, tick : 0..MaxTick] \cup {[wellformed |-> FALSE, tick |-> 0]}

\* the parse failure taken for the earliest timestamp
ParseSentinelAsEarliest(ts) == ts.tick

\* parse_timestamp: the parsed value, or datetime.min when strptime raises or
\* the field is shorter than 18 characters.
parse_timestamp(ts) ==
    IF ts.wellformed THEN ts.tick ELSE DatetimeMin

\* the timestamp taken as it is for the start of the window
TopOfHourKept(t) == t

\* timestamp.replace(minute=0, second=0, microsecond=0)
TopOfHour(t) == t - (t % TicksPerHour)

\* datetime.timedelta(hours=h)
Hours(h) == h * TicksPerHour

(***************************************************************************)
(* list.sort(key=lambda x: parse_timestamp(x[0])): a stable sort           *)
(***************************************************************************)
\* r put behind the last element of the sorted s whose key is <= key(r)
RECURSIVE InsertByKey(_, _)
InsertByKey(s, r) ==
    IF s = <<>> THEN <<r>>
    ELSE IF parse_timestamp(s[Len(s)].ts) <= parse_timestamp(r.ts)
         THEN Append(s, r)
         ELSE Append(InsertByKey(SubSeq(s, 1, Len(s) - 1), r), s[Len(s)])

RECURSIVE SortByKey(_)
SortByKey(s) ==
    IF s = <<>> THEN <<>>
    ELSE InsertByKey(SortByKey(SubSeq(s, 1, Len(s) - 1)), s[Len(s)])

\* the sort left out
SortResultsSkipped(s) == s

\* a sort that puts records with equal keys in the reverse of their order
SortResultsUnstable(s) == SortByKey([i \in 1..Len(s) |-> s[Len(s) + 1 - i]])

SortResults(s) == SortByKey(s)

(***************************************************************************)
(* State                                                                   *)
(***************************************************************************)
VARIABLES
    \* configuration of the job, fixed at construction (ScanWorker.__init__)
    max_results,           \* self.max_results
    max_output_files,      \* self.max_output_files
    time_range_hours,      \* self.time_range_hours
    \* fields of the ScanWorker shared with the thread that calls stop()
    stop_requested,        \* self._stop_requested
    executor,              \* self._executor: "none", "running" or "shutdown"
    temp_files_info,       \* keys of self._temp_files_info
    result_truncated,      \* self._result_truncated
    \* worker pool
    task_state,            \* per file: "new", "queued", "running", "done", "cancelled"
    yielded,               \* futures as_completed has handed out
    \* locals of run()
    pc,
    all_results,
    idx,                   \* position of the for loop over all_results
    entry_count,
    current_segment_start,
    current_segment_end,
    current_temp_file,
    output_files,
    close_site,            \* which call of close_temp_file is running
    \* file system
    temp_files,            \* temp file number -> [exists, closed, content, window]
    final_files,           \* report name -> [content, complete]
    \* signals emitted
    events,                \* counters: truncation and cap warnings, error, finished; last error text
    \* thread calling stop()
    stop_pc,
    stop_phase,            \* phase of the job at the first stop() call
    written,               \* records written so far by current_temp_out.write
    \* one call of process_line
    keywords,              \* the Keyword objects behind combined_re and raw_list
    line,                  \* the line handed to process_line
    out,                   \* the list process_line appends to
    line_pc,               \* "idle", "call", "returned"
    \* LogHighlighter, the controller in the GUI thread
    worker,                \* self.worker: "none" or "set"
    gui,                   \* buttons, dialogs shown and messages appended
    \* one call of scan_file
    file,                  \* the file behind path: its text and its faults
    scan,                  \* locals of scan_file, and the limits it reads
    \* a ThreadPoolExecutor with its tasks counted
    thread_pool,           \* max_workers, len(file_paths), pool size, tasks by state
    \* what analyze_combined_keywords builds from the keywords
    matcher,               \* combined pattern, mapping and raw_list
    \* ScanWorker threads the window has let go of
    detached,              \* threads still inside run() that self.worker has dropped
    \* the incremental engine of src/0424-loghightlight.py
    previous_keywords,     \* self.previous_keywords
    cached_results,        \* the keys of self.cached_results
    current_threads,       \* self.current_threads: keyword -> index into threads
    threads,               \* the KeywordScanThread objects created so far
    result_ready,          \* result_ready signals emitted and not yet delivered
    html_output            \* the keywords whose matches the written page holds

config == <<max_results, max_output_files, time_range_hours>>
line_call == <<keywords, line, out, line_pc>>
controller == <<worker, gui, detached>>
scan_call == <<file, scan>>
pool_call == <<thread_pool>>
compile_call == <<matcher>>
incremental == <<previous_keywords, cached_results, current_threads, threads,
                 result_ready, html_output>>
inputs == <<config, line_call, controller, scan_call, pool_call, compile_call,
            incremental>>
pool == <<task_state, yielded>>
segment == <<current_segment_start, current_segment_end, current_temp_file>>
vars == <<max_results, max_output_files, time_range_hours,
          stop_requested, executor, temp_files_info, result_truncated,
          task_state, yielded, pc, all_results, idx, entry_count,
          current_segment_start, current_segment_end, current_temp_file,
          output_files, close_site, temp_files, final_files, events,
          stop_pc, stop_phase, written, keywords, line, out, line_pc,
          worker, gui, file, scan, thread_pool, matcher, detached,
          previous_keywords, cached_results, current_threads, threads,
          result_ready, html_output>>

\* The batch of (ts, hl) tuples of file f; hl, the rendered line, is identified
\* by the file and the position of the line in it.
BatchOf(f, tss) == [i \in 1..Len(tss) |-> [ts |-> tss[i], hl |-> <<f, i>>]]

SeqsUpTo(S, n) == UNION {[1..k -> S] : k \in 0..n}


\* the fields and locals of a ScanWorker after construction, the flag apart
JobInit ==
    /\ executor = "none"
    /\ temp_files_info = {}
    /\ result_truncated = FALSE
    /\ task_state = [f \in Files |-> "new"]
    /\ yielded = {}
    /\ pc = "start"
    /\ all_results = <<>>
    /\ idx = 1
    /\ entry_count = 0
    /\ current_segment_start = None
    /\ current_segment_end = None
    /\ current_temp_file = NoFile
    /\ output_files = <<>>
    /\ close_site = "none"
    /\ temp_files = <<>>
    /\ final_files = <<>>
    /\ events = [truncated |-> 0, capped |-> 0, error |-> 0, finished |-> 0,
                 error_text |-> "none"]
    /\ stop_pc = "idle"
    /\ stop_phase = "none"
    /\ written = 0

\* the window before an analysis (buttons as built) and during one (lines
\* 1118-1120)
GuiIdle ==
    [btn_analysis |-> TRUE, btn_cancel |-> FALSE, regex_errors |-> 0,
     cancelled_msgs |-> 0, timeout_msgs |-> 0, finished_handled |-> FALSE,
     browser_opened |-> 0]

GuiRunning == [GuiIdle EXCEPT !.btn_analysis = FALSE, !.btn_cancel = TRUE]

\* no file and no call of scan_file
NoScan ==
    /\ file = [text |-> <<>>, stat_error |-> FALSE, io_error_at |-> None,
               decode_error_at |-> <<0, 0, 0>>]
    /\ scan = [pc |-> "idle", enc |-> 1, reads |-> 0, buffer |-> <<>>, opened |-> 0,
               log |-> <<>>, handed |-> <<>>, chunk_size |-> 1, max_file_size |-> 1]

\* no pattern built yet
NoMatcher ==
    matcher = [state |-> "none", pattern |-> <<>>, mapping |-> <<>>, raw_list |-> <<>>]

\* the window of src/0424-loghightlight.py as built (lines 229-231)
NoIncremental ==
    /\ previous_keywords = {}
    /\ cached_results = {}
    /\ current_threads = <<>>
    /\ threads = <<>>
    /\ result_ready = <<>>
    /\ html_output = {}

\* no pool whose tasks are counted
NoPool ==
    thread_pool = [pc |-> "idle", max_workers |-> 1, files |-> 1, size |-> 0,
                   queued |-> 0, running |-> 0, done |-> 0]

\* a ScanWorker that analyze_combined_keywords has created and started
Init ==
    /\ NoScan
    /\ NoPool
    /\ NoMatcher
    /\ worker = "set"
    /\ detached = 0
    /\ NoIncremental
    /\ gui = GuiRunning
    /\ max_results \in 1..MaxResultsCfg
    /\ max_output_files \in 1..MaxOutputFilesCfg
    /\ time_range_hours \in TimeRangeHours
    /\ stop_requested = FALSE
    /\ JobInit
    /\ keywords = <<>>
    /\ line = <<>>
    /\ out = <<>>
    /\ line_pc = "idle"

(***************************************************************************)
(* Phase 1: the worker pool (run(), lines 308-328)                         *)
(***************************************************************************)
\* self.max_workers: the value of spin_cores, whose range starts at 1
max_workers == 1

\* the pool without its ceiling
PoolSizeNoCeiling(cores, n) == IF cores * 2 < n THEN cores * 2 ELSE n

\* min(self.max_workers * 2, len(self.file_paths), 32) (line 273)
PoolSize(cores, n) ==
    LET a == cores * 2
        m == IF a < n THEN a ELSE n
    IN  IF m < 32 THEN m ELSE 32

dynamic_workers == PoolSize(max_workers, NumFiles)

Running == {f \in Files : task_state[f] = "running"}

\* lines 308-309: the pool is created and every file submitted
StartPool ==
    /\ pc = "start"
    /\ executor' = "running"
    /\ task_state' = [f \in Files |-> "queued"]
    /\ pc' = "collect"
    /\ UNCHANGED <<inputs, stop_requested, temp_files_info, result_truncated, yielded,
                   all_results, idx, entry_count, segment, output_files, close_site,
                   temp_files, final_files, events, stop_pc, stop_phase, written>>

\* a pool thread takes a queued task
TaskStart(f) ==
    /\ task_state[f] = "queued"
    /\ Cardinality(Running) < dynamic_workers
    /\ task_state' = [task_state EXCEPT ![f] = "running"]
    /\ UNCHANGED <<inputs, stop_requested, executor, temp_files_info, result_truncated,
                   yielded, pc, all_results, idx, entry_count, segment, output_files,
                   close_site, temp_files, final_files, events, stop_pc, stop_phase,
                   written>>

\* scan_file returns (lines 232-270)
TaskFinish(f) ==
    /\ task_state[f] = "running"
    /\ task_state' = [task_state EXCEPT ![f] = "done"]
    /\ UNCHANGED <<inputs, stop_requested, executor, temp_files_info, result_truncated,
                   yielded, pc, all_results, idx, entry_count, segment, output_files,
                   close_site, temp_files, final_files, events, stop_pc, stop_phase,
                   written>>

\* shutdown(cancel_futures=True): queued tasks are cancelled
CancelQueued(ts) ==
    [f \in Files |-> IF ts[f] = "queued" THEN "cancelled" ELSE ts[f]]

\* lines 312-326: as_completed yields a finished (or cancelled) future.
\* fut.result() is the list of (ts, hl) tuples scan_file built from the lines
\* of the file that matched; what the file holds is the environment's choice,
\* seen by the job when it reads the result.
Collect(f) ==
    /\ pc = "collect"
    /\ f \notin yielded
    /\ task_state[f] \in {"done", "cancelled"}
    /\ yielded' = yielded \cup {f}
    /\ IF stop_requested
       THEN /\ executor' = "shutdown"
            /\ task_state' = CancelQueued(task_state)
            /\ pc' = "join"
            /\ UNCHANGED <<all_results, events>>
       ELSE /\ IF task_state[f] = "cancelled"
               THEN \* fut.result() raises CancelledError (lines 324-326)
                    /\ events' = [events EXCEPT !.error = @ + 1,
                                                !.error_text = "CancelledError"]
                    /\ UNCHANGED all_results
               ELSE /\ \E tss \in SeqsUpTo(TsFields, MaxRecs - Len(all_results)) :
                         all_results' = all_results \o BatchOf(f, tss)
                    /\ UNCHANGED events
            /\ UNCHANGED <<executor, task_state, pc>>
    /\ UNCHANGED <<inputs, stop_requested, temp_files_info, result_truncated,
                   idx, entry_count, segment, output_files, close_site,
                   temp_files, final_files, stop_pc, stop_phase, written>>

\* as_completed is exhausted
CollectEnd ==
    /\ pc = "collect"
    /\ yielded = Files
    /\ pc' = "join"
    /\ UNCHANGED <<inputs, stop_requested, executor, temp_files_info, result_truncated,
                   pool, all_results, idx, entry_count, segment, output_files,
                   close_site, temp_files, final_files, events, stop_pc, stop_phase,
                   written>>

\* a shutdown that does not wait
PoolIdleAlways == TRUE

\* no task is queued or running
PoolIdle == \A f \in Files : task_state[f] \in {"done", "cancelled"}

\* lines 327-328: shutdown(wait=True) returns when no task runs; tasks still
\* queued are run first
JoinPool ==
    /\ pc = "join"
    /\ PoolIdle
    /\ executor' = "none"
    /\ pc' = "check"
    /\ UNCHANGED <<inputs, stop_requested, temp_files_info, result_truncated,
                   pool, all_results, idx, entry_count, segment, output_files,
                   close_site, temp_files, final_files, events, stop_pc, stop_phase,
                   written>>

(***************************************************************************)
(* Phase 2: sort and segment writer (run(), lines 330-365)                 *)
(***************************************************************************)
\* the comparison of line 335 off by one
LimitReachedLate(n) == n > max_results

\* entry_count >= self.max_results (line 335)
LimitReached(n) == n >= max_results

\* the comparison with max_output_files off by one
UnderCapOffByOne(n) == n <= max_output_files

\* the comparison with max_output_files left out
UnderCapAlways(n) == TRUE

\* len(output_files) < self.max_output_files (lines 352, 357; negated at 348)
UnderCap(n) == n < max_output_files

\* tempfile.mkstemp: a name no file has
NewTemp == Len(temp_files) + 1

\* the file get_temp_file_for_segment creates (lines 275-283): it exists, its
\* file object is open, and it holds the header of its window
CreateTemp(start, end) ==
    Append(temp_files, [exists |-> TRUE, closed |-> FALSE, content |-> <<>>,
                        window |-> <<start, end>>])

\* line 330, with the sort of line 332
CheckStop ==
    /\ pc = "check"
    /\ IF ~stop_requested
       THEN /\ all_results' = SortResults(all_results)
            /\ pc' = "loop"
       ELSE /\ pc' = "report"
            /\ UNCHANGED all_results
    /\ UNCHANGED <<inputs, stop_requested, executor, temp_files_info, result_truncated,
                   pool, idx, entry_count, segment, output_files, close_site,
                   temp_files, final_files, events, stop_pc, stop_phase, written>>

\* the test of line 343 without its second half: no rollover
PastWindowNever(timestamp) == current_segment_start = None

\* line 343: no segment yet, or the record lies at or behind the end of the window
PastWindow(timestamp) ==
    current_segment_start = None \/ timestamp >= current_segment_end

\* the rollover without the close of the segment before
HasSegmentNever == FALSE

\* current_temp_file and current_temp_out (line 344)
HasSegment == current_temp_file # NoFile

\* no record skipped for its timestamp
UnparseableNever(timestamp) == FALSE

\* timestamp == datetime.datetime.min (line 341)
Unparseable(timestamp) == timestamp = DatetimeMin

\* lines 334-344: the head of one iteration, up to the choice between closing
\* the open segment, opening one and writing
LoopHead ==
    /\ pc = "loop"
    /\ IF idx > Len(all_results)
       THEN /\ pc' = "final"
            /\ UNCHANGED <<result_truncated, events, idx, close_site>>
       ELSE LET timestamp == parse_timestamp(all_results[idx].ts) IN
            IF LimitReached(entry_count) /\ ~result_truncated
            THEN /\ result_truncated' = TRUE
                 /\ events' = [events EXCEPT !.truncated = @ + 1]
                 /\ pc' = "final"
                 /\ UNCHANGED <<idx, close_site>>
            ELSE IF Unparseable(timestamp)
            THEN /\ idx' = idx + 1
                 /\ UNCHANGED <<result_truncated, events, pc, close_site>>
            ELSE IF PastWindow(timestamp)
            THEN /\ IF HasSegment
                    THEN pc' = "close" /\ close_site' = "loop"
                    ELSE pc' = "open" /\ UNCHANGED close_site
                 /\ UNCHANGED <<result_truncated, events, idx>>
            ELSE /\ pc' = "write"
                 /\ UNCHANGED <<result_truncated, events, idx, close_site>>
    /\ UNCHANGED <<inputs, stop_requested, executor, temp_files_info, pool, all_results,
                   entry_count, segment, output_files, temp_files, final_files,
                   stop_pc, stop_phase, written>>

\* lines 390-391: an exception raised inside run() ends it with an error
\* signal that carries the text of the exception
Raise(e) ==
    /\ events' = [events EXCEPT !.error = @ + 1, !.error_text = e]
    /\ pc' = "failed"

\* the name close_temp_file gives the report of a window (lines 293-295)
OutputName(start, end) == <<start, end>>

\* what the caller does with the value close_temp_file returned:
\* lines 346-351 in the loop, lines 364-365 after it
CloseReturn(ret) ==
    IF close_site = "loop"
    THEN IF ret # NoName
         THEN /\ output_files' = Append(output_files, ret)
              /\ IF ~UnderCap(Len(output_files) + 1)
                 THEN /\ events' = [events EXCEPT !.capped = @ + 1]
                      /\ pc' = "final"
                 ELSE /\ pc' = "open"
                      /\ UNCHANGED events
         ELSE /\ pc' = "open"
              /\ UNCHANGED <<output_files, events>>
    ELSE /\ output_files' = IF ret # NoName THEN Append(output_files, ret)
                            ELSE output_files
         /\ pc' = "report"
         /\ UNCHANGED events

\* close_temp_file, lines 287-296: the file object is closed; without the temp
\* file on disk the function returns None, with it open(output_filename, 'w')
\* creates the report under its final name, or empties it, or raises OSError
\* when the report cannot be opened for writing; nothing inside
\* close_temp_file or around its calls catches that, so it leaves run()
\* through line 390
CloseBegin ==
    /\ pc = "close"
    /\ temp_files' = [temp_files EXCEPT ![current_temp_file].closed = TRUE]
    /\ IF temp_files[current_temp_file].exists
       THEN LET name == OutputName(current_segment_start, current_segment_end) IN
            \/ /\ final_files' =
                      [n \in DOMAIN final_files \cup {name} |->
                          IF n = name THEN [content |-> <<>>, complete |-> FALSE]
                          ELSE final_files[n]]
               /\ pc' = "close_copy"
               /\ UNCHANGED <<output_files, events>>
            \/ /\ Raise("OSError")
               /\ UNCHANGED <<final_files, output_files>>
       ELSE /\ CloseReturn(NoName)
            /\ UNCHANGED final_files
    /\ UNCHANGED <<inputs, stop_requested, executor, temp_files_info, result_truncated,
                   pool, all_results, idx, entry_count, segment, close_site,
                   stop_pc, stop_phase, written>>

\* lines 297-299: the temp file is opened and read and its content written to
\* the report; open raises when the temp file has been removed meanwhile, and
\* the exception leaves run() through line 390
CloseCopy ==
    /\ pc = "close_copy"
    /\ LET name == OutputName(current_segment_start, current_segment_end) IN
       IF temp_files[current_temp_file].exists
       THEN /\ final_files' = [final_files EXCEPT
                   ![name].content = temp_files[current_temp_file].content]
            /\ pc' = "close_footer"
            /\ UNCHANGED events
       ELSE /\ Raise("FileNotFoundError")
            /\ UNCHANGED final_files
    /\ UNCHANGED <<inputs, stop_requested, executor, temp_files_info, result_truncated,
                   pool, all_results, idx, entry_count, segment, output_files,
                   close_site, temp_files, stop_pc, stop_phase, written>>

\* lines 300-305: the footer is written and the report closed, the temp file
\* removed (a failure is logged) and the name of the report returned
CloseFinish ==
    /\ pc = "close_footer"
    /\ LET name == OutputName(current_segment_start, current_segment_end) IN
       /\ final_files' = [final_files EXCEPT ![name].complete = TRUE]
       /\ CloseReturn(name)
    /\ temp_files' = [temp_files EXCEPT ![current_temp_file].exists = FALSE]
    /\ UNCHANGED <<inputs, stop_requested, executor, temp_files_info, result_truncated,
                   pool, all_results, idx, entry_count, segment, close_site,
                   stop_pc, stop_phase, written>>

\* lines 352-355: a new segment, anchored at the hour of the record
OpenSegment ==
    /\ pc = "open"
    /\ IF UnderCap(Len(output_files))
       THEN LET start == TopOfHour(parse_timestamp(all_results[idx].ts))
                end == start + Hours(time_range_hours)
            IN  /\ current_segment_start' = start
                /\ current_segment_end' = end
                /\ current_temp_file' = NewTemp
                /\ temp_files' = CreateTemp(start, end)
                /\ pc' = "register"
       ELSE /\ pc' = "write"
            /\ UNCHANGED <<segment, temp_files>>
    /\ UNCHANGED <<inputs, stop_requested, executor, temp_files_info, result_truncated,
                   pool, all_results, idx, entry_count, output_files, close_site,
                   final_files, events, stop_pc, stop_phase, written>>

\* line 356: the temp file is entered into the bookkeeping map
RegisterTemp ==
    /\ pc = "register"
    /\ temp_files_info' = temp_files_info \cup {current_temp_file}
    /\ pc' = "write"
    /\ UNCHANGED <<inputs, stop_requested, executor, result_truncated,
                   pool, all_results, idx, entry_count, segment, output_files,
                   close_site, temp_files, final_files, events, stop_pc, stop_phase,
                   written>>

\* lines 357-359: the record is written; write raises ValueError on a file
\* object that stop() has closed
WriteRecord ==
    /\ pc = "write"
    /\ IF UnderCap(Len(output_files))
       THEN IF temp_files[current_temp_file].closed
            THEN /\ Raise("ValueError")
                 /\ UNCHANGED <<temp_files, written, entry_count, idx>>
            ELSE /\ temp_files' = [temp_files EXCEPT ![current_temp_file].content =
                                       Append(@, all_results[idx].hl)]
                 /\ written' = written + 1
                 /\ entry_count' = entry_count + 1
                 /\ idx' = idx + 1
                 /\ pc' = "loop"
                 /\ UNCHANGED events
       ELSE /\ entry_count' = entry_count + 1
            /\ idx' = idx + 1
            /\ pc' = "loop"
            /\ UNCHANGED <<temp_files, written, events>>
    /\ UNCHANGED <<inputs, stop_requested, executor, temp_files_info, result_truncated,
                   pool, all_results, segment, output_files, close_site,
                   final_files, stop_pc, stop_phase>>

\* the close after the loop left out
SegmentStillOpenNever == FALSE

\* current_temp_file and current_temp_out and not current_temp_out.closed
\* (line 362)
SegmentStillOpen ==
    current_temp_file # NoFile /\ ~temp_files[current_temp_file].closed

\* lines 362-363: the last open segment is closed
FinalClose ==
    /\ pc = "final"
    /\ IF SegmentStillOpen
       THEN pc' = "close" /\ close_site' = "final"
       ELSE pc' = "report" /\ UNCHANGED close_site
    /\ UNCHANGED <<inputs, stop_requested, executor, temp_files_info, result_truncated,
                   pool, all_results, idx, entry_count, segment, output_files,
                   temp_files, final_files, events, stop_pc, stop_phase, written>>

\* lines 368-377: the closing messages; the truncation is reported again
Report ==
    /\ pc = "report"
    /\ IF ~stop_requested /\ result_truncated
       THEN events' = [events EXCEPT !.truncated = @ + 1]
       ELSE UNCHANGED events
    /\ pc' = "cleanup"
    /\ UNCHANGED <<inputs, stop_requested, executor, temp_files_info, result_truncated,
                   pool, all_results, idx, entry_count, segment, output_files,
                   close_site, temp_files, final_files, stop_pc, stop_phase, written>>

\* lines 380-389: the bookkeeping map is cleared and finished emitted
Finish ==
    /\ pc = "cleanup"
    /\ temp_files_info' = {}
    /\ events' = [events EXCEPT !.finished = @ + 1]
    /\ pc' = "done"
    /\ UNCHANGED <<inputs, stop_requested, executor, result_truncated,
                   pool, all_results, idx, entry_count, segment, output_files,
                   close_site, temp_files, final_files, stop_pc, stop_phase, written>>

(***************************************************************************)
(* ScanWorker.stop(), lines 200-218, run by another thread                 *)
(***************************************************************************)
\* the flag toggled instead of set
StopFlagToggled(flag) == ~flag

\* line 202
StopFlag(flag) == TRUE

\* lines 203-204: shutdown(wait=False, cancel_futures=True) of a pool that exists
StopExecutor(ex) == IF ex # "none" THEN "shutdown" ELSE ex

\* lines 205-211: every file object of the bookkeeping map is closed
StopCloseObjects(tf, info) ==
    [t \in DOMAIN tf |-> IF t \in info THEN [tf[t] EXCEPT !.closed = TRUE] ELSE tf[t]]

\* lines 212-217: every temp file of the bookkeeping map is removed
StopRemoveFiles(tf, info) ==
    [t \in DOMAIN tf |-> IF t \in info THEN [tf[t] EXCEPT !.exists = FALSE] ELSE tf[t]]

\* line 218
StopClearInfo(info) == {}

\* one whole call of stop() that no step of the job thread interrupts, on the
\* part of the state stop() reads or writes
StopCall(s) ==
    [flag     |-> StopFlag(s.flag),
     executor |-> StopExecutor(s.executor),
     temps    |-> StopRemoveFiles(StopCloseObjects(s.temps, s.info), s.info),
     info     |-> StopClearInfo(s.info),
     finals   |-> s.finals]

\* the part of the current state stop() reads or writes
StopView ==
    [flag |-> stop_requested, executor |-> executor, temps |-> temp_files,
     info |-> temp_files_info, finals |-> final_files]

\* the phase the job thread is in
PhaseOf(p) ==
    IF p \in {"start", "collect", "join", "check"} THEN "scan"
    ELSE IF p \in {"loop", "close", "close_copy", "close_footer",
                   "open", "register", "write", "final"} THEN "write"
    ELSE IF p \in {"report", "cleanup"} THEN "late"
    ELSE "ended"

\* LogHighlighter calls stop() at most once on a worker and then drops its
\* reference to it (cancel_analysis, closeEvent).
\* lines 202-204
StopBegin ==
    /\ stop_pc = "idle"
    /\ stop_phase = "none"
    /\ stop_requested' = StopFlag(stop_requested)
    /\ executor' = StopExecutor(executor)
    /\ task_state' = IF executor # "none" THEN CancelQueued(task_state) ELSE task_state
    /\ stop_phase' = PhaseOf(pc)
    /\ stop_pc' = "close_objects"
    /\ UNCHANGED <<inputs, temp_files_info, result_truncated, yielded,
                   pc, all_results,
                   idx, entry_count, segment, output_files, close_site, temp_files,
                   final_files, events, written>>

\* lines 205-211
StopClose ==
    /\ stop_pc = "close_objects"
    /\ temp_files' = StopCloseObjects(temp_files, temp_files_info)
    /\ stop_pc' = "remove_files"
    /\ UNCHANGED <<inputs, stop_requested, executor, temp_files_info, result_truncated,
                   pool, pc, all_results, idx, entry_count, segment, output_files,
                   close_site, final_files, events, stop_phase, written>>

\* lines 212-218: the temp files of the map are removed and the map cleared
StopRemove ==
    /\ stop_pc = "remove_files"
    /\ temp_files' = StopRemoveFiles(temp_files, temp_files_info)
    /\ temp_files_info' = StopClearInfo(temp_files_info)
    /\ stop_pc' = "returned"
    /\ UNCHANGED <<inputs, stop_requested, executor, result_truncated,
                   pool, pc, all_results, idx, entry_count, segment, output_files,
                   close_site, final_files, events, stop_phase, written>>

(***************************************************************************)
(* Specification                                                           *)
(***************************************************************************)
Next ==
    \/ StartPool
    \/ \E f \in Files : TaskStart(f)
    \/ \E f \in Files : TaskFinish(f)
    \/ \E f \in Files : Collect(f)
    \/ CollectEnd
    \/ JoinPool
    \/ CheckStop
    \/ LoopHead
    \/ CloseBegin
    \/ CloseCopy
    \/ CloseFinish
    \/ OpenSegment
    \/ RegisterTemp
    \/ WriteRecord
    \/ FinalClose
    \/ Report
    \/ Finish
    \/ StopBegin
    \/ StopClose
    \/ StopRemove

Spec == Init /\ [][Next]_vars

(***************************************************************************)
(* Properties of the job                                                   *)
(***************************************************************************)
JobEnded == pc \in {"done", "failed"}

\* the job ran to the finished signal and stop() was not called before that
NormalCompletion == pc = "done" /\ stop_phase \in {"none", "ended"}

\* the reports on disk, earliest window first
RECURSIVE InWindowOrder(_)
InWindowOrder(names) ==
    IF names = {} THEN <<>>
    ELSE LET first == CHOOSE n \in names : \A m \in names : n[1] <= m[1]
         IN  <<first>> \o InWindowOrder(names \ {first})

RECURSIVE ConcatContent(_)
ConcatContent(names) ==
    IF names = <<>> THEN <<>>
    ELSE final_files[Head(names)].content \o ConcatContent(Tail(names))

\* the record lines of all reports, in window order
ArtifactLines == ConcatContent(InWindowOrder(DOMAIN final_files))

IsEligible(r) == parse_timestamp(r.ts) # DatetimeMin

\* the records of s whose timestamp parses
Eligible(s) == SelectSeq(s, IsEligible)

NonDecreasing(s) ==
    \A i \in 1..(Len(s) - 1) : parse_timestamp(s[i].ts) <= parse_timestamp(s[i + 1].ts)

\* s holds every line of every batch once: the lines 1..k of each file
HoldsEachLineOnce(s) ==
    /\ \A i, j \in 1..Len(s) : s[i].hl = s[j].hl => i = j
    /\ \A i \in 1..Len(s) : \A k \in 1..s[i].hl[2] :
           \E j \in 1..Len(s) : s[j].hl = <<s[i].hl[1], k>>

\* the end of the latest window among the reports
LastWindowEnd ==
    LET names == InWindowOrder(DOMAIN final_files) IN names[Len(names)][2]

\* C2: on a normally completed job the lines of the reports, in window
\* order, are the collected records sorted by timestamp without the
\* unparseable ones, up to the first record that max_results or
\* max_output_files cuts off: nothing is lost, duplicated or reordered.
CompletenessUnderLimits ==
    NormalCompletion =>
        LET e == Eligible(all_results)
            n == Len(ArtifactLines)
        IN  /\ NonDecreasing(all_results)
            /\ HoldsEachLineOnce(all_results)
            /\ n <= Len(e)
            /\ ArtifactLines = [i \in 1..n |-> e[i].hl]
            /\ \A name \in DOMAIN final_files : final_files[name].complete
            /\ n < Len(e) =>
                  \/ n = max_results
                  \/ /\ Cardinality(DOMAIN final_files) = max_output_files
                     /\ parse_timestamp(e[n + 1].ts) >= LastWindowEnd

\* a normally completed job that sorted its records and wrote two reports
CompletenessWitness ==
    /\ NormalCompletion
    /\ Cardinality(DOMAIN final_files) = 2
    /\ Len(ArtifactLines) = 2
    /\ ArtifactLines[1][1] = 2

\* the batch of file f, as collected
BatchIn(s, f) ==
    LET k == Cardinality({i \in 1..Len(s) : s[i].hl[1] = f})
    IN  [i \in 1..k |-> CHOOSE r \in {s[j] : j \in 1..Len(s)} : r.hl = <<f, i>>]

\* all_results as collected when the tasks complete in the order of submission
SubmissionOrder(s) == BatchIn(s, 1) \o BatchIn(s, 2)

\* C3: for fixed files, keywords and configuration the reports are the same
\* for every order in which the file tasks complete, so they are those of
\* the job whose tasks complete in the order of submission.
DeterministicArtifacts ==
    NormalCompletion =>
        LET e == Eligible(SortResults(SubmissionOrder(all_results)))
            n == Len(ArtifactLines)
        IN  ArtifactLines = [i \in 1..n |-> e[i].hl]

\* C4: a job on which stop() was called during the scan or during segment
\* writing leaves no report on disk once job thread and stop() have ended.
NoArtifactAfterCancel ==
    (JobEnded /\ stop_pc = "returned" /\ stop_phase \in {"scan", "write"})
        => DOMAIN final_files = {}

\* C5: in every state of the job a second stop() right after a first changes
\* nothing (flag, pool, temp files, bookkeeping), and stop() leaves the
\* reports as they are.
StopIdempotent ==
    LET once == StopCall(StopView) IN
    /\ StopCall(once) = once
    /\ once.finals = final_files

\* a segment is open and registered while a report is on disk: stop() has
\* files to close and remove
StopHasWork ==
    /\ temp_files_info # {}
    /\ \E t \in temp_files_info : temp_files[t].exists /\ ~temp_files[t].closed
    /\ DOMAIN final_files # {}
    /\ StopCall(StopView) # StopView

\* C6: a file under a final report name is complete.
ArtifactAtomicVisibility ==
    \A name \in DOMAIN final_files : final_files[name].complete

\* the number of record lines in the reports
LinesInReports == Len(ArtifactLines)

OneTruncationWarning ==
    pc = "done" => events.truncated = (IF result_truncated THEN 1 ELSE 0)

\* C9: the number of reports never exceeds max_output_files.
OutputFileLimit ==
    /\ Len(output_files) <= max_output_files
    /\ Cardinality(DOMAIN final_files) <= max_output_files

\* the limit is reached by the close after the loop
OutputFileLimitWitness ==
    /\ pc = "done"
    /\ max_output_files = 2
    /\ Len(output_files) = 2
    /\ close_site = "final"

AllTempClosed == \A t \in DOMAIN temp_files : temp_files[t].closed

\* C10 as claimed: once the number of reports has reached max_output_files no
\* segment is open any more, and the job emits exactly one cap warning.
CappedStickyAsClaimed ==
    Len(output_files) >= max_output_files =>
        /\ AllTempClosed
        /\ JobEnded => events.capped = 1

\* C10 as amended: once the number of reports has reached max_output_files no
\* segment is open any more, so none is opened and no record written; the cap
\* warning is emitted once when the limit is reached at a rollover inside the
\* loop, and not when it is reached by the close after the loop.
CappedSticky ==
    /\ Len(output_files) >= max_output_files =>
          /\ AllTempClosed
          /\ events.capped = (IF close_site = "loop" THEN 1 ELSE 0)
    /\ Len(output_files) < max_output_files => events.capped = 0

\* the limit is reached at a rollover while records are left
CappedStickyWitness ==
    /\ pc = "done"
    /\ events.capped = 1
    /\ Len(output_files) = max_output_files
    /\ idx <= Len(all_results)

\* a record whose timestamp field strptime accepts
WellFormed(r) == r.ts.wellformed

\* the collected record a written line comes from
RecordOf(l) == all_results[CHOOSE i \in 1..Len(all_results) : all_results[i].hl = l]

\* the parsed timestamps of the records that parse
ParsedTicks == {all_results[i].ts.tick : i \in {j \in 1..Len(all_results) : WellFormed(all_results[j])}}

\* C11: a record whose timestamp field does not parse is in no temp file and
\* no report, no window is anchored at it (every window starts at the hour
\* of a record that parses), and entry_count, which max_results limits,
\* counts exactly the parseable records among those the loop has passed.
SentinelExcluded ==
    /\ \A t \in DOMAIN temp_files : \A i \in 1..Len(temp_files[t].content) :
          WellFormed(RecordOf(temp_files[t].content[i]))
    /\ \A n \in DOMAIN final_files : \A i \in 1..Len(final_files[n].content) :
          WellFormed(RecordOf(final_files[n].content[i]))
    /\ \A t \in DOMAIN temp_files :
          \E k \in ParsedTicks : temp_files[t].window[1] = k - (k % TicksPerHour)
    /\ ParsedTicks = {} => (temp_files = <<>> /\ DOMAIN final_files = {})
    /\ entry_count =
          Cardinality({i \in 1..(idx - 1) : i <= Len(all_results) /\ WellFormed(all_results[i])})

\* a completed job with an unparseable and a parseable record and
\* max_results = 1: the parseable one is written and nothing is cut off
SentinelExcludedWitness ==
    /\ NormalCompletion
    /\ max_results = 1
    /\ \E i \in 1..Len(all_results) : ~WellFormed(all_results[i])
    /\ written = 1
    /\ ~result_truncated
    /\ idx > Len(all_results)

\* the place of record r in s
PosIn(s, r) == CHOOSE i \in 1..Len(s) : s[i] = r

\* t holds the records of s by ascending timestamp, records with equal
\* timestamps in the order they have in s
StableSortOf(t, s) ==
    /\ Len(t) = Len(s)
    /\ {t[i] : i \in 1..Len(t)} = {s[i] : i \in 1..Len(s)}
    /\ NonDecreasing(t)
    /\ \A i, j \in 1..Len(t) :
          (i < j /\ parse_timestamp(t[i].ts) = parse_timestamp(t[j].ts))
              => PosIn(s, t[i]) < PosIn(s, t[j])

\* the lines of the reports are by ascending timestamp and in the order of
\* all_results
LinesOrdered ==
    \A i, j \in 1..Len(ArtifactLines) :
        i < j => /\ RecordOf(ArtifactLines[i]).ts.tick <= RecordOf(ArtifactLines[j]).ts.tick
                 /\ PosIn(all_results, RecordOf(ArtifactLines[i]))
                        < PosIn(all_results, RecordOf(ArtifactLines[j]))

\* C12: the lines of each report, and of all reports in window order, are by
\* non-decreasing timestamp and keep the order of the sorted all_results;
\* and the sort of line 332 leaves records with equal timestamps in the order
\* in which they were collected from the completed file tasks.
TotalOrder ==
    /\ []LinesOrdered
    /\ [][(pc = "check" /\ pc' = "loop") => StableSortOf(all_results', all_results)]_vars

\* two records with the same timestamp, the one of file 2 collected first and
\* first in the report
TotalOrderWitness ==
    /\ NormalCompletion
    /\ ArtifactLines = << <<2, 1>>, <<1, 1>> >>
    /\ RecordOf(<<2, 1>>).ts = RecordOf(<<1, 1>>).ts

\* the parsed timestamp of a written line
TickOf(l) == RecordOf(l).ts.tick

\* lines written under the window <<start, end>>: the window starts at the
\* top of the hour of the first line, is time_range_hours long and holds the
\* timestamp of every line
WindowHolds(window, content) ==
    LET ticks == [i \in 1..Len(content) |-> TickOf(content[i])] IN
    /\ window[2] = window[1] + time_range_hours * TicksPerHour
    /\ content # <<>> => window[1] = ticks[1] - (ticks[1] % TicksPerHour)
    /\ \A i \in 1..Len(content) : window[1] <= ticks[i] /\ ticks[i] < window[2]
    /\ \A i \in 1..(Len(content) - 1) : ticks[i] <= ticks[i + 1]

\* C13: the window of every segment starts at the hour of the first record
\* written to it and ends time_range_hours later, and every record of the
\* temp file and of the report of the window lies in [start, end), in
\* timestamp order; a completed job whose two records lie in one hour, with
\* no limit cutting in, has one report holding both.
WindowMembership ==
    /\ \A t \in DOMAIN temp_files : WindowHolds(temp_files[t].window, temp_files[t].content)
    /\ \A n \in DOMAIN final_files : WindowHolds(n, final_files[n].content)
    /\ (/\ NormalCompletion
        /\ max_results >= 2
        /\ Len(all_results) = 2
        /\ \A i \in 1..2 : WellFormed(all_results[i])
        /\ all_results[1].ts.tick \div TicksPerHour = all_results[2].ts.tick \div TicksPerHour)
          => /\ Cardinality(DOMAIN final_files) = 1
             /\ ArtifactLines = <<all_results[1].hl, all_results[2].hl>>

\* two records one tick apart in the same hour, from two files, in one
\* report
WindowMembershipWitness ==
    /\ NormalCompletion
    /\ Len(ArtifactLines) = 2
    /\ Cardinality(DOMAIN final_files) = 1
    /\ TickOf(ArtifactLines[1]) = TicksPerHour
    /\ TickOf(ArtifactLines[2]) = TicksPerHour + 1
    /\ ArtifactLines[1][1] # ArtifactLines[2][1]

\* C14: the windows of the segments of one job, in the order they were
\* opened, are disjoint and strictly increasing (the next starts at or behind
\* the end of the one before, gaps allowed), so their report names differ; no
\* record at or behind the end of a window is in its file, a later segment
\* starts at the hour of its first record, and, stop() not called, the
\* segment before it has been finalized into a complete report.
SegmentRollover ==
    /\ \A t, u \in DOMAIN temp_files :
          t < u => /\ temp_files[t].window[2] <= temp_files[u].window[1]
                   /\ temp_files[t].window[1] < temp_files[u].window[1]
                   /\ OutputName(temp_files[t].window[1], temp_files[t].window[2])
                          # OutputName(temp_files[u].window[1], temp_files[u].window[2])
    /\ \A t \in DOMAIN temp_files : \A i \in 1..Len(temp_files[t].content) :
          TickOf(temp_files[t].content[i]) < temp_files[t].window[2]
    /\ \A u \in DOMAIN temp_files :
          (u > 1 /\ temp_files[u].content # <<>>) =>
              LET k == TickOf(temp_files[u].content[1]) IN
              /\ k >= temp_files[u - 1].window[2]
              /\ temp_files[u].window[1] = k - (k % TicksPerHour)
    /\ stop_phase = "none" =>
          \A t \in DOMAIN temp_files : t < Len(temp_files) =>
              /\ temp_files[t].closed /\ ~temp_files[t].exists
              /\ temp_files[t].window \in DOMAIN final_files
              /\ final_files[temp_files[t].window].complete
              /\ final_files[temp_files[t].window].content = temp_files[t].content

\* a rollover: the record behind the end of the first window lies inside its
\* hour, and the second window starts at the top of that hour
SegmentRolloverWitness ==
    /\ NormalCompletion
    /\ Len(temp_files) = 2
    /\ temp_files[1].window[2] <= temp_files[2].window[1]
    /\ temp_files[2].content # <<>>
    /\ TickOf(temp_files[2].content[1]) > temp_files[2].window[1]
    /\ Cardinality(DOMAIN final_files) = 2

\* C15: a job on which stop() is not called before it ends, ends with the
\* finished signal and without an error signal, whatever happens to the
\* reports it finalizes: a report that cannot be opened is left out and the
\* job goes on.
WriteFailureIsolated ==
    (JobEnded /\ stop_phase \in {"none", "ended"})
        => (pc = "done" /\ events.finished = 1 /\ events.error = 0)

\* C22: no segment that was open when stop() set the flag, and no segment
\* opened after that, is finalized: a call of close_temp_file that begins
\* with the flag set, for a segment that is then still open or was opened
\* since, creates no report; and once stop(), called during segment writing,
\* and the job thread have both ended, no temp file is left (the run that
\* ends at a report that cannot be opened apart).
OpenSegmentDiscarded ==
    /\ [][(stop_requested /\ pc = "close") => pc' # "close_copy"]_vars
    /\ []((JobEnded /\ stop_pc = "returned" /\ stop_phase = "write"
              /\ events.error_text # "OSError")
            => \A t \in DOMAIN temp_files : ~temp_files[t].exists)

\* C23: once the flag is set the segment writer finishes at most the record
\* it is at: with the flag set the head of the loop takes up no further
\* record, neither to write it nor to open or switch a segment for it.
RecordGranularCancel ==
    [][(pc = "loop" /\ stop_requested) => pc' \notin {"close", "open", "write"}]_vars

\* the state of the segment writer: the temp files with their file objects,
\* the bookkeeping map, the counters and the list of reports
AggregatorState ==
    <<temp_files, temp_files_info, entry_count, result_truncated, output_files,
      final_files, current_segment_start, current_segment_end, current_temp_file>>

\* C24: while the job runs, a step of the thread that calls stop() leaves the
\* state of the segment writer as it is: of the state the job thread uses,
\* stop() touches the flag alone.
SingleThreadedFold ==
    [][(stop_pc' # stop_pc /\ ~JobEnded) => UNCHANGED AggregatorState]_vars

\* C25: once the flag is set no file task that has not started takes up its
\* file, whenever stop() was called, before the pool exists included, and
\* the job collects no further record from a task.
ScannerCancellation ==
    [][stop_requested =>
          /\ \A f \in Files : task_state'[f] = "running" => task_state[f] = "running"
          /\ Len(all_results') = Len(all_results)]_vars

\* C27: on a normally completed job, also one that max_results or
\* max_output_files cut short, every segment that was opened is closed, its
\* temp file gone and its content in one complete report of its window; the
\* list of reports names each of them once, one per segment, so that no
\* segment was finalized twice; and every record written is in a report.
FinalSegmentOnce ==
    NormalCompletion =>
        /\ \A t \in DOMAIN temp_files :
              /\ temp_files[t].closed /\ ~temp_files[t].exists
              /\ temp_files[t].window \in DOMAIN final_files
              /\ final_files[temp_files[t].window].complete
              /\ final_files[temp_files[t].window].content = temp_files[t].content
        /\ Len(output_files) = Len(temp_files)
        /\ \A i \in 1..Len(output_files) : output_files[i] = temp_files[i].window
        /\ DOMAIN final_files = {output_files[i] : i \in 1..Len(output_files)}
        /\ Cardinality(DOMAIN final_files) = Len(output_files)
        /\ written = Len(ArtifactLines)

\* max_results cut the job short with a segment open, which the close after
\* the loop finalized
FinalSegmentOnceWitness ==
    /\ NormalCompletion
    /\ result_truncated
    /\ close_site = "final"
    /\ Len(temp_files) = 1
    /\ written = 1
    /\ idx <= Len(all_results)
    /\ final_files[temp_files[1].window].complete

\* C28: once the job thread has ended, with the finished signal or with an
\* exception that left run(), and no call of stop() is under way, no temp
\* file of the job is on disk and the bookkeeping map is empty; this
\* includes the job thread that went on after stop() had returned.
CleanupOnExit ==
    (JobEnded /\ stop_pc \in {"idle", "returned"}) =>
        /\ \A t \in DOMAIN temp_files : ~temp_files[t].exists
        /\ temp_files_info = {}

\* the temp files whose file object is open
OpenTemps == {t \in DOMAIN temp_files : ~temp_files[t].closed}

\* C32: at most one temp file is open, it is the one of the current segment
\* and bears its window, and at most one temp file is on disk; every temp
\* file but the latest is closed, so that the temp file of a segment was
\* created only after the one before it had been closed.
OneInProgressArtifact ==
    /\ Cardinality(OpenTemps) <= 1
    /\ \A t \in OpenTemps :
          /\ t = current_temp_file
          /\ t = Len(temp_files)
          /\ temp_files[t].window = <<current_segment_start, current_segment_end>>
    /\ Cardinality({t \in DOMAIN temp_files : temp_files[t].exists}) <= 1
    /\ \A t \in DOMAIN temp_files : t < Len(temp_files) => temp_files[t].closed

\* the second segment is open and written to, the first closed and finalized
OneInProgressWitness ==
    /\ Len(temp_files) = 2
    /\ OpenTemps = {2}
    /\ temp_files[2].content # <<>>
    /\ temp_files[1].closed /\ ~temp_files[1].exists
    /\ stop_phase = "none"

\* C34: every report that close_temp_file has completed holds at least one
\* record line, and so does every report named in output_files; a temp file
\* without a record line is the current segment between its creation and
\* its first write (or the point where that write failed); and while no
\* collected record has a timestamp that parses, no temp file and no report
\* exists.
NoEmptyArtifact ==
    /\ \A n \in DOMAIN final_files :
          final_files[n].complete => Len(final_files[n].content) >= 1
    /\ \A i \in 1..Len(output_files) :
          /\ output_files[i] \in DOMAIN final_files
          /\ Len(final_files[output_files[i]].content) >= 1
    /\ \A t \in DOMAIN temp_files :
          temp_files[t].content = <<>> =>
              (t = current_temp_file /\ pc \in {"register", "write", "failed"})
    /\ (\A i \in 1..Len(all_results) : ~WellFormed(all_results[i])) =>
          (temp_files = <<>> /\ DOMAIN final_files = {} /\ output_files = <<>>
              /\ written = 0)

\* a job with one unparseable and one parseable record has run to its end
\* with one completed report, which holds the one parseable record
NoEmptyArtifactWitness ==
    /\ pc = "done"
    /\ stop_phase = "none"
    /\ events.error = 0
    /\ Len(all_results) = 2
    /\ ~WellFormed(all_results[1]) /\ WellFormed(all_results[2])
    /\ Len(output_files) = 1
    /\ final_files[output_files[1]].complete
    /\ final_files[output_files[1]].content = <<all_results[2].hl>>

\* the records of s, whatever their order
RecordsOf(s) == {s[i] : i \in 1..Len(s)}

\* C33: from the test before the sort on, through sorting and segment
\* writing, every file task has finished or been cancelled and the pool is
\* shut down and dropped, and while segments are written every task has been
\* collected; in these phases the collected records stay the same records;
\* and the records grow only by the batch of one finished task that had
\* not been collected before, which is then marked collected.
PhaseSeparation ==
    /\ [](pc \notin {"start", "collect", "join"} =>
            /\ \A f \in Files : task_state[f] \in {"done", "cancelled"}
            /\ executor = "none")
    /\ [](PhaseOf(pc) = "write" => (yielded = Files /\ HoldsEachLineOnce(all_results)))
    /\ [][pc \notin {"start", "collect", "join"} =>
            (RecordsOf(all_results') = RecordsOf(all_results)
                /\ Len(all_results') = Len(all_results))]_vars
    /\ [][all_results' # all_results /\ pc = "collect" =>
            \E f \in Files :
                /\ f \notin yielded /\ yielded' = yielded \cup {f}
                /\ task_state[f] = "done"
                /\ \A i \in 1..Len(all_results) : all_results'[i] = all_results[i]
                /\ \A i \in (Len(all_results) + 1)..Len(all_results') :
                      all_results'[i].hl[1] = f]_vars

\* segments are written with the batches of both files collected, file 2
\* first
PhaseSeparationWitness ==
    /\ pc = "write"
    /\ stop_phase = "none"
    /\ Len(all_results) = 2
    /\ all_results[1].hl[1] = 2 /\ all_results[2].hl[1] = 1
    /\ all_results[1].ts.tick < all_results[2].ts.tick
    /\ all_results[1].ts.wellformed /\ all_results[2].ts.wellformed

(***************************************************************************)
(* Keyword.to_group and ScanWorker.process_line                            *)
(* A text is a sequence of characters; "." is the one regular-expression   *)
(* metacharacter of the model (any character), "a" and "A" are word        *)
(* characters.                                                             *)
(***************************************************************************)
LineChars == {"a", "A", "."}
RawChars == {"a", "."}

KeywordSet ==
    [raw : UNION {[1..n -> RawChars] : n \in 1..MaxRawLen},
     match_case : BOOLEAN, whole_word : BOOLEAN, use_regex : BOOLEAN]

\* \w
IsWordChar(c) == c \in {"a", "A"}

\* case folding of (?i:...)
Lower(c) == IF c = "A" THEN "a" ELSE c

\* one character of the pattern of kw against one character of the line:
\* RE_MODULE.escape makes every character literal unless use_regex (line
\* 118); (?i:...) is added unless match_case (lines 121-122)
CharMatches(kw, p, c) ==
    IF kw.use_regex /\ p = "." THEN TRUE
    ELSE IF kw.match_case THEN p = c
    ELSE Lower(p) = Lower(c)

\* Keyword.to_group (lines 108-124): the group of kw matches s at position i;
\* whole_word adds (?<!\w) and (?!\w) (lines 119-120)
GroupMatchesAt(kw, s, i) ==
    LET n == Len(kw.raw) IN
    /\ i + n - 1 <= Len(s)
    /\ \A k \in 1..n : CharMatches(kw, kw.raw[k], s[i + k - 1])
    /\ kw.whole_word =>
          /\ (i = 1 \/ ~IsWordChar(s[i - 1]))
          /\ (i + n > Len(s) \/ ~IsWordChar(s[i + n]))

\* combined_re.search: "|".join(parts) (lines 1100-1108) matches somewhere
CombinedSearch(kws, s) ==
    \E g \in 1..Len(kws) : \E i \in 1..Len(s) : GroupMatchesAt(kws[g], s, i)

\* raw_list (line 1105)
RawList(kws) == [g \in 1..Len(kws) |-> kws[g].raw]

\* sub in line: Python's substring test, exact in letter case
Contains(s, sub) ==
    \E i \in 1..(Len(s) - Len(sub) + 1) :
        \A k \in 1..Len(sub) : s[i + k - 1] = sub[k]

\* any(sub in line for sub in self.raw_list) (line 407)
PreFilter(raws, s) == \E g \in 1..Len(raws) : Contains(s, raws[g])

\* line[:n]
Prefix(s, n) == SubSeq(s, 1, IF Len(s) < n THEN Len(s) ELSE n)

\* line.rstrip('\n') (line 406)
RECURSIVE RStripNewline(_)
RStripNewline(s) ==
    IF s # <<>> /\ s[Len(s)] = "\n" THEN RStripNewline(SubSeq(s, 1, Len(s) - 1))
    ELSE s

\* html.escape, character by character
HtmlEscape(s) == [i \in 1..Len(s) |-> IF s[i] = "<" THEN "&lt;" ELSE s[i]]

\* the group that wins at position i: alternatives are tried left to right
FirstGroupAt(kws, s, i) ==
    IF \E g \in 1..Len(kws) : GroupMatchesAt(kws[g], s, i)
    THEN CHOOSE g \in 1..Len(kws) :
            /\ GroupMatchesAt(kws[g], s, i)
            /\ \A h \in 1..(g - 1) : ~GroupMatchesAt(kws[h], s, i)
    ELSE 0

\* combined_re.finditer (line 139): leftmost, non-overlapping matches from
\* position i on, each with its span and m.lastgroup (k0, k1, ... by
\* enumerate, line 1101)
RECURSIVE FindIter(_, _, _)
FindIter(kws, s, i) ==
    IF i > Len(s) THEN <<>>
    ELSE LET g == FirstGroupAt(kws, s, i) IN
         IF g = 0 THEN FindIter(kws, s, i + 1)
         ELSE <<[s |-> i, e |-> i + Len(kws[g].raw), nm |-> g - 1]>>
                 \o FindIter(kws, s, i + Len(kws[g].raw))

\* the pieces highlight_line joins (lines 138-150): escaped plain text
\* (nm = None) and escaped keyword text inside the span of its group
RECURSIVE HighlightFrom(_, _, _)
HighlightFrom(s, ms, last) ==
    IF ms = <<>> THEN <<[text |-> HtmlEscape(SubSeq(s, last, Len(s))), nm |-> None]>>
    ELSE LET m == Head(ms) IN
         <<[text |-> HtmlEscape(SubSeq(s, last, m.s - 1)), nm |-> None],
           [text |-> HtmlEscape(SubSeq(s, m.s, m.e - 1)), nm |-> m.nm]>>
             \o HighlightFrom(s, Tail(ms), m.e)

highlight_line(raw_line, kws) == HighlightFrom(raw_line, FindIter(kws, raw_line, 1), 1)

\* the line matched in its whole length
CutLineNever(s) == s

\* if len(line) > 2000: line = line[:2000] (lines 409-410)
CutLine(s) == IF Len(s) > LineCut THEN Prefix(s, LineCut) ELSE s

\* process_line (lines 404-415): the list it leaves in out
ProcessLineOut(kws, l, o) ==
    LET stripped == RStripNewline(l)
        cut == CutLine(stripped)
    IN  IF ~PreFilter(RawList(kws), stripped) THEN o
        ELSE IF CombinedSearch(kws, cut)
             THEN Append(o, [ts |-> IF Len(cut) >= TsLen THEN Prefix(cut, TsLen) ELSE cut,
                             hl |-> highlight_line(cut, kws)])
             ELSE o

ProcessLine ==
    /\ line_pc = "call"
    /\ out' = IF stop_requested THEN out ELSE ProcessLineOut(keywords, line, out)
    /\ line_pc' = "returned"
    /\ UNCHANGED <<config, pool_call, compile_call, incremental, controller, scan_call, keywords, line, stop_requested, executor, temp_files_info,
                   result_truncated, pool, pc, all_results, idx, entry_count, segment,
                   output_files, close_site, temp_files, final_files, events, stop_pc,
                   stop_phase, written>>

\* the lines scan_file hands over (lines 251-260): splitlines() has taken the
\* line ends off
Lines == UNION {[1..n -> LineChars] : n \in 0..MaxLineLen}

KeywordLists == UNION {[1..n -> KeywordSet] : n \in 1..MaxKeywords}

InitFilter ==
    /\ NoScan
    /\ NoPool
    /\ NoMatcher
    /\ worker = "set"
    /\ detached = 0
    /\ NoIncremental
    /\ gui = GuiRunning
    /\ max_results = 1
    /\ max_output_files = 1
    /\ time_range_hours = 1
    /\ stop_requested \in BOOLEAN
    /\ JobInit
    /\ keywords \in KeywordLists
    /\ line \in Lines
    /\ out = <<>>
    /\ line_pc = "call"

NextFilter == ProcessLine

SpecFilter == InitFilter /\ [][NextFilter]_vars

\* the line as combined_re.search sees it in process_line
EvaluatedLine ==
    LET stripped == RStripNewline(line)
    IN  IF Len(stripped) > LineCut THEN Prefix(stripped, LineCut) ELSE stripped

\* C1: whenever process_line has returned without the stop flag set and the
\* combined pattern matches the line as process_line evaluates it, the
\* pre-filter over the raw texts let the line through and a record was
\* appended to out; this includes keywords with match_case = FALSE whose
\* occurrence in the line differs in letter case from the raw text.
FastRejectSound ==
    (line_pc = "returned" /\ ~stop_requested /\ CombinedSearch(keywords, EvaluatedLine))
        => (PreFilter(RawList(keywords), RStripNewline(line)) /\ Len(out) = 1)

\* the characters of a rendered line, piece after piece
RECURSIVE Flatten(_)
Flatten(pieces) ==
    IF pieces = <<>> THEN <<>> ELSE Head(pieces).text \o Flatten(Tail(pieces))

\* the highlighted regions of a rendered line whose first piece starts at
\* position `at` of the source line: half-open spans [s, e), in the order
\* of the pieces
RECURSIVE RegionsOf(_, _)
RegionsOf(pieces, at) ==
    IF pieces = <<>> THEN <<>>
    ELSE LET p == Head(pieces)
             rest == RegionsOf(Tail(pieces), at + Len(p.text))
         IN  IF p.nm = None THEN rest
             ELSE <<[s |-> at, e |-> at + Len(p.text)]>> \o rest

\* C29: in the line highlight_line has rendered every character of the
\* source line, escaped, appears once and in its place, inside a highlighted
\* region or outside; the regions are in ascending order and pairwise
\* disjoint; and no two regions touch: spans that touch or overlap have
\* become one region.
HighlightDisjoint ==
    (line_pc = "returned" /\ out # <<>>) =>
        LET hl == out[1].hl
            regions == RegionsOf(hl, 1)
        IN  /\ Flatten(hl) = HtmlEscape(EvaluatedLine)
            /\ \A i \in 1..Len(regions) : regions[i].s < regions[i].e
            /\ \A i \in 1..(Len(regions) - 1) : regions[i].e < regions[i + 1].s

\* process_line called with one keyword of any kind and any line, the flag
\* not set
InitCut ==
    /\ NoScan
    /\ NoPool
    /\ NoMatcher
    /\ worker = "set"
    /\ detached = 0
    /\ NoIncremental
    /\ gui = GuiRunning
    /\ max_results = 1
    /\ max_output_files = 1
    /\ time_range_hours = 1
    /\ stop_requested = FALSE
    /\ JobInit
    /\ keywords \in [1..1 -> KeywordSet]
    /\ line \in Lines
    /\ out = <<>>
    /\ line_pc = "call"

NextCut == ProcessLine

SpecCut == InitCut /\ [][NextCut]_vars

\* C31: for a line longer than the cut that passes the pre-filter,
\* process_line appends a record exactly when the pattern matches within the
\* first LineCut characters, so that an occurrence beyond them alone gives
\* no record; the rendered line is those first characters and nothing
\* behind them, every highlighted region lies inside them, and the
\* timestamp field is the first TsLen characters of the line.
LineLengthCut ==
    (line_pc = "returned" /\ Len(line) > LineCut /\ PreFilter(RawList(keywords), line)) =>
        LET head == SubSeq(line, 1, LineCut) IN
        /\ Len(out) = (IF CombinedSearch(keywords, head) THEN 1 ELSE 0)
        /\ out # <<>> =>
              /\ Flatten(out[1].hl) = HtmlEscape(head)
              /\ \A i \in 1..Len(RegionsOf(out[1].hl, 1)) :
                    RegionsOf(out[1].hl, 1)[i].e <= LineCut + 1
              /\ out[1].ts = SubSeq(line, 1, TsLen)

\* the letter a stands before the cut and behind it: one record, rendered
\* up to the cut
LineLengthCutWitness ==
    /\ line_pc = "returned"
    /\ Len(line) = LineCut + 1
    /\ line[1] = "a" /\ line[Len(line)] = "a"
    /\ keywords[1].raw = <<"a">> /\ keywords[1].match_case /\ ~keywords[1].use_regex
    /\ Len(out) = 1
    /\ Len(Flatten(out[1].hl)) = LineCut

(***************************************************************************)
(* LogHighlighter: analyze_combined_keywords, cancel_analysis and the      *)
(* finished slot, all run by the GUI thread                                *)
(***************************************************************************)
\* the keyword lists of an analysis: one keyword, a letter or an opening
\* parenthesis, taken literally or as a regular expression
AnalysisKeywords ==
    {<<[raw |-> <<c>>, annotation |-> "x", match_case |-> FALSE, whole_word |-> FALSE,
        use_regex |-> r, color |-> "#ffff99"]>> :
        c \in {"a", "("}, r \in BOOLEAN}

\* A pattern is a sequence of tokens: the opening of a named group, of a
\* plain capture group, of a group that captures nothing ((?i: ), a closing
\* parenthesis, a zero-width assertion, and a character, literal or not.
\* m.lastgroup of a group without a name
Unnamed == <<>>

NamedOpen(name) == [t |-> "named", name |-> name, c |-> ""]
CaptureOpen == [t |-> "open", name |-> Unnamed, c |-> ""]
PlainOpen == [t |-> "nocapture", name |-> Unnamed, c |-> ""]
GroupClose == [t |-> "close", name |-> Unnamed, c |-> ""]
Assertion == [t |-> "assert", name |-> Unnamed, c |-> ""]
Alternation == [t |-> "alt", name |-> Unnamed, c |-> ""]
Char(c) == [t |-> "char", name |-> Unnamed, c |-> c]

\* a character of a raw text used as a regular expression
RegexToken(c) ==
    IF c = "(" THEN CaptureOpen
    ELSE IF c = ")" THEN GroupClose
    ELSE Char(c)

\* RE_MODULE.escape: every character stands for itself
Escape(raw) == [k \in 1..Len(raw) |-> Char(raw[k])]

\* Keyword.to_group(idx) (lines 108-124): the pattern of the group and its
\* name, k followed by the index
to_group(kw, index) ==
    LET pat == IF kw.use_regex THEN [k \in 1..Len(kw.raw) |-> RegexToken(kw.raw[k])]
               ELSE Escape(kw.raw)
        word == IF kw.whole_word THEN <<Assertion>> \o pat \o <<Assertion>> ELSE pat
        cased == IF ~kw.match_case THEN <<PlainOpen>> \o word \o <<GroupClose>> ELSE word
        name == <<"k", index>>
    IN  [pattern |-> <<NamedOpen(name)>> \o cased \o <<GroupClose>>, name |-> name]

\* "|".join(parts), parts in the order of enumerate(all_kws) (lines 1101-1108)
RECURSIVE JoinParts(_, _)
JoinParts(kws, g) ==
    IF g > Len(kws) THEN <<>>
    ELSE (IF g > 1 THEN <<Alternation>> ELSE <<>>)
             \o to_group(kws[g], g - 1).pattern \o JoinParts(kws, g + 1)

\* mapping (lines 1100-1104): an assignment per keyword, a later one to the
\* same name replacing an earlier
Mapping(kws) ==
    [n \in {to_group(kws[g], g - 1).name : g \in 1..Len(kws)} |->
        LET g == CHOOSE h \in 1..Len(kws) :
                     /\ to_group(kws[h], h - 1).name = n
                     /\ \A j \in (h + 1)..Len(kws) : to_group(kws[j], j - 1).name # n
        IN  [annotation |-> kws[g].annotation, color |-> kws[g].color]]

\* the parentheses of a pattern match: the depth never falls below zero and
\* ends at zero
RECURSIVE Balanced(_, _)
Balanced(pattern, depth) ==
    IF pattern = <<>> THEN depth = 0
    ELSE LET tok == Head(pattern) IN
         IF tok.t \in {"named", "open", "nocapture"}
         THEN Balanced(Tail(pattern), depth + 1)
         ELSE IF tok.t = "close"
         THEN depth > 0 /\ Balanced(Tail(pattern), depth - 1)
         ELSE Balanced(Tail(pattern), depth)

\* the capture groups of a pattern in the order they open, each by its name
\* (Unnamed for a group without one)
CaptureGroups(pattern) ==
    LET IsCapture(tok) == tok.t \in {"named", "open"}
        opens == SelectSeq(pattern, IsCapture)
    IN  [i \in 1..Len(opens) |-> opens[i].name]

\* every pattern taken for compilable
CompilesAlways(kws) == TRUE

\* RE_MODULE.compile("|".join(parts)) (lines 1107-1108) succeeds: every
\* parenthesis that RE_MODULE.escape has not escaped (line 118) has its partner
Compiles(kws) == Balanced(JoinParts(kws, 1), 0)

\* lines 1100-1108 with a pattern that compiles: combined_re, mapping, raw_list
Compiled(kws) ==
    [state |-> "compiled", pattern |-> JoinParts(kws, 1), mapping |-> Mapping(kws),
     raw_list |-> RawList(kws)]

\* QThread.isRunning(): from start() until run() has returned
IsRunning == pc \notin {"not_started", "done", "failed"}

\* the GUI thread is inside no handler
GuiThreadFree == stop_pc \in {"idle", "cancel_done"}

\* analyze_combined_keywords up to the compilation (lines 1054-1111) when the
\* compilation fails: the dialog of line 1110 and return
AnalyzeCompileError(kws) ==
    /\ GuiThreadFree
    /\ pc = "not_started"
    /\ ~(worker = "set" /\ IsRunning)
    /\ ~Compiles(kws)
    /\ gui.regex_errors < MaxRegexErrors
    /\ gui' = [gui EXCEPT !.regex_errors = @ + 1]
    /\ UNCHANGED <<config, pool_call, compile_call, incremental, detached, line_call, scan_call, worker, stop_requested, executor, temp_files_info,
                   result_truncated, pool, pc, all_results, idx, entry_count, segment,
                   output_files, close_site, temp_files, final_files, events, stop_pc,
                   stop_phase, written>>

\* analyze_combined_keywords with a pattern that compiles (lines 1054-1153):
\* buttons switched, the ScanWorker constructed, its signals connected and
\* its thread started
AnalyzeStart(kws) ==
    /\ GuiThreadFree
    /\ pc = "not_started"
    /\ ~(worker = "set" /\ IsRunning)
    /\ Compiles(kws)
    /\ keywords' = kws
    /\ matcher' = Compiled(kws)
    /\ gui' = [gui EXCEPT !.btn_analysis = FALSE, !.btn_cancel = TRUE]
    /\ worker' = "set"
    /\ pc' = "start"
    /\ UNCHANGED <<config, pool_call, incremental, detached, scan_call, line, out, line_pc, stop_requested, executor, temp_files_info,
                   result_truncated, pool, all_results, idx, entry_count, segment,
                   output_files, close_site, temp_files, final_files, events, stop_pc,
                   stop_phase, written>>

\* cancel_analysis, lines 1157-1158: the guard and the first statements of
\* stop(); the rest of stop() is StopClose and StopRemove
CancelStop ==
    /\ worker = "set"
    /\ IsRunning
    /\ StopBegin

\* cancel_analysis, lines 1159-1170: wait() returns True when run() has
\* returned, False when the timeout passes first
CancelWait ==
    /\ stop_pc = "returned"
    /\ IF JobEnded
       THEN gui' = [gui EXCEPT !.cancelled_msgs = @ + 1,
                               !.btn_analysis = TRUE, !.btn_cancel = FALSE]
       ELSE gui' = [gui EXCEPT !.timeout_msgs = @ + 1,
                               !.btn_analysis = TRUE, !.btn_cancel = FALSE]
    /\ worker' = "none"
    /\ stop_pc' = "cancel_done"
    /\ UNCHANGED <<config, pool_call, compile_call, incremental, detached, line_call, scan_call, stop_requested, executor, temp_files_info,
                   result_truncated, pool, pc, all_results, idx, entry_count, segment,
                   output_files, close_site, temp_files, final_files, events,
                   stop_phase, written>>

\* on_finished (lines 1142-1150), queued to the GUI thread by finished.emit
OnFinished ==
    /\ GuiThreadFree
    /\ events.finished = 1
    /\ ~gui.finished_handled
    /\ gui' = [gui EXCEPT !.finished_handled = TRUE,
                          !.btn_analysis = TRUE, !.btn_cancel = FALSE,
                          !.browser_opened =
                              IF output_files # <<>> /\ output_files[1] \in DOMAIN final_files
                              THEN @ + 1 ELSE @]
    /\ worker' = "none"
    /\ UNCHANGED <<config, pool_call, compile_call, incremental, detached, line_call, scan_call, stop_requested, executor, temp_files_info,
                   result_truncated, pool, pc, all_results, idx, entry_count, segment,
                   output_files, close_site, temp_files, final_files, events, stop_pc,
                   stop_phase, written>>

\* the window as built, no analysis started; the job variables hold the
\* values the constructor will give them, the configuration the defaults
\* with one-hour windows (CONFIG_DEFAULTS, lines 76-81)
InitController ==
    /\ NoScan
    /\ NoPool
    /\ NoMatcher
    /\ worker = "none"
    /\ detached = 0
    /\ NoIncremental
    /\ gui = GuiIdle
    /\ max_results = MaxResultsCfg
    /\ max_output_files = MaxOutputFilesCfg
    /\ time_range_hours = 1
    /\ stop_requested = FALSE
    /\ executor = "none"
    /\ temp_files_info = {}
    /\ result_truncated = FALSE
    /\ task_state = [f \in Files |-> "new"]
    /\ yielded = {}
    /\ pc = "not_started"
    /\ all_results = <<>>
    /\ idx = 1
    /\ entry_count = 0
    /\ current_segment_start = None
    /\ current_segment_end = None
    /\ current_temp_file = NoFile
    /\ output_files = <<>>
    /\ close_site = "none"
    /\ temp_files = <<>>
    /\ final_files = <<>>
    /\ events = [truncated |-> 0, capped |-> 0, error |-> 0, finished |-> 0,
                 error_text |-> "none"]
    /\ stop_pc = "idle"
    /\ stop_phase = "none"
    /\ written = 0
    /\ keywords = <<>>
    /\ line = <<>>
    /\ out = <<>>
    /\ line_pc = "idle"

NextController ==
    \/ \E kws \in AnalysisKeywords : AnalyzeCompileError(kws)
    \/ \E kws \in AnalysisKeywords : AnalyzeStart(kws)
    \/ CancelStop
    \/ StopClose
    \/ StopRemove
    \/ CancelWait
    \/ OnFinished
    \/ StartPool
    \/ \E f \in Files : TaskStart(f)
    \/ \E f \in Files : TaskFinish(f)
    \/ \E f \in Files : Collect(f)
    \/ CollectEnd
    \/ JoinPool
    \/ CheckStop
    \/ LoopHead
    \/ CloseBegin
    \/ CloseCopy
    \/ CloseFinish
    \/ OpenSegment
    \/ RegisterTemp
    \/ WriteRecord
    \/ FinalClose
    \/ Report
    \/ Finish

SpecController == InitController /\ [][NextController]_vars

(***************************************************************************)
(* The controller with a second analysis.  The job variables describe the  *)
(* ScanWorker that self.worker refers to or referred to last; of a worker  *)
(* the window has let go of while its thread was inside run(), only the    *)
(* fact that the thread still runs is kept.                                *)
(***************************************************************************)
\* analyze_combined_keywords (lines 1054-1153) called when cancel_analysis has
\* timed out waiting and cleared self.worker (lines 1159-1170): the test of
\* line 1059 finds no worker, a new ScanWorker is constructed and started,
\* and the thread of the old one is still inside run()
AnalyzeAgain(kws) ==
    /\ GuiThreadFree
    /\ worker = "none"
    /\ IsRunning
    /\ Compiles(kws)
    /\ gui.timeout_msgs <= MaxTimeouts
    /\ detached' = detached + 1
    /\ keywords' = kws
    /\ matcher' = Compiled(kws)
    /\ gui' = [gui EXCEPT !.btn_analysis = FALSE, !.btn_cancel = TRUE,
                          !.finished_handled = FALSE]
    /\ worker' = "set"
    /\ stop_requested' = FALSE
    /\ executor' = "none"
    /\ temp_files_info' = {}
    /\ result_truncated' = FALSE
    /\ task_state' = [f \in Files |-> "new"]
    /\ yielded' = {}
    /\ pc' = "start"
    /\ all_results' = <<>>
    /\ idx' = 1
    /\ entry_count' = 0
    /\ current_segment_start' = None
    /\ current_segment_end' = None
    /\ current_temp_file' = NoFile
    /\ output_files' = <<>>
    /\ close_site' = "none"
    /\ temp_files' = <<>>
    /\ final_files' = <<>>
    /\ events' = [truncated |-> 0, capped |-> 0, error |-> 0, finished |-> 0,
                  error_text |-> "none"]
    /\ stop_pc' = "idle"
    /\ stop_phase' = "none"
    /\ written' = 0
    /\ UNCHANGED <<config, pool_call, incremental, scan_call, line, out, line_pc>>

\* run() of a thread the window has let go of returns
DetachedEnd ==
    /\ detached > 0
    /\ detached' = detached - 1
    /\ UNCHANGED <<config, pool_call, compile_call, incremental, line_call, scan_call,
                   worker, gui, stop_requested, executor, temp_files_info,
                   result_truncated, pool, pc, all_results, idx, entry_count, segment,
                   output_files, close_site, temp_files, final_files, events, stop_pc,
                   stop_phase, written>>

NextRestart ==
    \/ NextController
    \/ \E kws \in AnalysisKeywords : AnalyzeAgain(kws)
    \/ DetachedEnd

SpecRestart == InitController /\ [][NextRestart]_vars

(***************************************************************************)
(* Properties of the controller                                            *)
(***************************************************************************)
\* no ScanWorker exists or has run: no pool, no task, no record, no file, no
\* signal, and the window is idle with the analysis button enabled
NoJob ==
    /\ worker = "none"
    /\ executor = "none"
    /\ \A f \in Files : task_state[f] = "new"
    /\ all_results = <<>>
    /\ temp_files = <<>> /\ temp_files_info = {} /\ DOMAIN final_files = {}
    /\ events.error = 0 /\ events.finished = 0
    /\ gui.btn_analysis /\ ~gui.btn_cancel
    /\ GuiThreadFree

\* the job variables, which a step of the controller alone leaves as they are
JobVars ==
    <<stop_requested, executor, temp_files_info, result_truncated, task_state, yielded,
      pc, all_results, idx, entry_count, current_segment_start, current_segment_end,
      current_temp_file, output_files, close_site, temp_files, final_files, events,
      stop_pc, stop_phase, written>>

CancellationErrors == {"CancelledError", "ValueError", "FileNotFoundError"}

\* C20: however cancel_analysis and the job thread interleave, the job
\* emits no error signal for an exception that stop() caused, and a
\* cancel_analysis that has returned has appended one message that answers
\* the request (cancelled, or timed out waiting for the thread).
CancellationNotError ==
    /\ events.error_text \notin CancellationErrors
    /\ stop_pc = "cancel_done" => gui.cancelled_msgs + gui.timeout_msgs = 1

\* the ScanWorker threads inside run(): the one of the job variables and the
\* ones let go of
RunningWorkers == detached + (IF IsRunning THEN 1 ELSE 0)

\* C36: at most one ScanWorker thread is inside run() at any time.
AtMostOneJob == RunningWorkers <= 1

\* C35: once run() has returned, on the normal path or through its exception
\* handler, the finished signal has been emitted exactly once, and it is
\* never emitted more than once.
TerminationSignalled ==
    /\ events.finished <= 1
    /\ pc \in {"done", "failed"} => events.finished = 1

(***************************************************************************)
(* scan_file (run(), lines 232-270): one file read in chunks under the     *)
(* encodings utf-8, gbk, gb2312 in turn.  A file is its text, one byte a   *)
(* character, and its faults: os.path.getsize raising, open or the n-th    *)
(* read raising an error other than UnicodeDecodeError, and per encoding   *)
(* the read at which decoding fails (0: the encoding decodes the file).    *)
(***************************************************************************)
FileChars == {"a", "\n"}

encodings == <<"utf-8", "gbk", "gb2312">>

\* f.read(self.chunk_size), the k-th call: the next size characters, empty
\* at the end of the file
Chunk(text, size, k) ==
    LET from == (k - 1) * size + 1
        to == IF k * size < Len(text) THEN k * size ELSE Len(text)
    IN  IF from > Len(text) THEN <<>> ELSE SubSeq(text, from, to)

\* the number of reads that return text
NumChunks(text, size) == (Len(text) + size - 1) \div size

\* the position of the first line end of s, 0 without one
FirstNewline(s) ==
    IF \E k \in 1..Len(s) : s[k] = "\n"
    THEN CHOOSE k \in 1..Len(s) : s[k] = "\n" /\ \A j \in 1..(k - 1) : s[j] # "\n"
    ELSE 0

\* str.splitlines(): the lines without their ends; a line end at the very
\* end opens no further line
RECURSIVE SplitLines(_)
SplitLines(s) ==
    IF s = <<>> THEN <<>>
    ELSE LET k == FirstNewline(s) IN
         IF k = 0 THEN <<s>>
         ELSE <<SubSeq(s, 1, k - 1)>> \o SplitLines(SubSeq(s, k + 1, Len(s)))

\* the lines of `lines` for which process_line is called: all of them, or the
\* first one alone when the flag is set (process_line returns True, break)
HandedOf(lines) ==
    IF lines = <<>> THEN <<>>
    ELSE IF stop_requested THEN <<Head(lines)>>
    ELSE lines

\* for line in lines: if self.process_line(line, out): break
RECURSIVE ProcessLines(_, _, _)
ProcessLines(kws, lines, o) ==
    IF lines = <<>> \/ stop_requested THEN o
    ELSE ProcessLines(kws, Tail(lines), ProcessLineOut(kws, Head(lines), o))

\* the size check taking a file of exactly the limit for too big
OversizeOrEqual(size) == size >= scan.max_file_size

\* file_size > self.max_file_size (line 238)
Oversize(size) == size > scan.max_file_size

\* scan_file returns (fname, out) (line 270)
ScanReturn(sc) == [sc EXCEPT !.pc = "returned"]

\* lines 233-240: out = [], the size check; getsize raising is caught at
\* line 268
ScanBegin ==
    /\ scan.pc = "call"
    /\ out' = <<>>
    /\ IF file.stat_error
       THEN scan' = ScanReturn([scan EXCEPT !.log = Append(@, "error")])
       ELSE IF Oversize(Len(file.text))
       THEN scan' = ScanReturn([scan EXCEPT !.log = Append(@, "skipped")])
       ELSE scan' = [scan EXCEPT !.pc = "open", !.enc = 1]
    /\ UNCHANGED <<config, pool_call, compile_call, incremental, controller, keywords, line, line_pc, file, stop_requested,
                   executor, temp_files_info, result_truncated, pool, pc, all_results,
                   idx, entry_count, segment, output_files, close_site, temp_files,
                   final_files, events, stop_pc, stop_phase, written>>

\* lines 243-246: the file is opened under the next encoding; an error of
\* open is caught at line 265 and ends the loop
ScanOpen ==
    /\ scan.pc = "open"
    /\ IF file.io_error_at = 0
       THEN scan' = ScanReturn([scan EXCEPT !.log = Append(@, "error")])
       ELSE scan' = [scan EXCEPT !.pc = "read", !.reads = 0, !.buffer = <<>>,
                                 !.opened = @ + 1]
    /\ UNCHANGED <<config, pool_call, compile_call, incremental, controller, line_call, file, stop_requested,
                   executor, temp_files_info, result_truncated, pool, pc, all_results,
                   idx, entry_count, segment, output_files, close_site, temp_files,
                   final_files, events, stop_pc, stop_phase, written>>

\* lines 247-267: one pass of the while loop.  The read raises
\* UnicodeDecodeError (the next encoding is tried, out is kept), or another
\* error (logged, the loop over the encodings ends), or returns the chunk:
\* the lines before the last one of the buffer are processed, and at the end
\* of the file the lines left in the buffer
ScanRead ==
    /\ scan.pc = "read"
    /\ LET k == scan.reads + 1
           chunk == Chunk(file.text, scan.chunk_size, k)
       IN  IF file.decode_error_at[scan.enc] = k
           THEN /\ scan' = IF scan.enc < Len(encodings)
                           THEN [scan EXCEPT !.pc = "open", !.enc = @ + 1]
                           ELSE ScanReturn(scan)
                /\ UNCHANGED out
           ELSE IF file.io_error_at = k
           THEN /\ scan' = ScanReturn([scan EXCEPT !.log = Append(@, "error")])
                /\ UNCHANGED out
           ELSE IF chunk = <<>>
           THEN /\ out' = ProcessLines(keywords, SplitLines(scan.buffer), out)
                /\ scan' = ScanReturn([scan EXCEPT
                                !.reads = k,
                                !.handed = @ \o HandedOf(SplitLines(scan.buffer))])
           ELSE LET lines == SplitLines(scan.buffer \o chunk)
                    before == IF lines = <<>> THEN <<>>
                              ELSE SubSeq(lines, 1, Len(lines) - 1)
                IN
                /\ out' = ProcessLines(keywords, before, out)
                /\ scan' = [scan EXCEPT !.reads = k,
                                        !.handed = @ \o HandedOf(before),
                                        !.buffer = IF lines = <<>> THEN <<>>
                                                   ELSE lines[Len(lines)]]
    /\ UNCHANGED <<config, pool_call, compile_call, incremental, controller, keywords, line, line_pc, file, stop_requested,
                   executor, temp_files_info, result_truncated, pool, pc, all_results,
                   idx, entry_count, segment, output_files, close_site, temp_files,
                   final_files, events, stop_pc, stop_phase, written>>

\* the files: a text, and faults at the size check, at open (0) or at one of
\* the first reads that return text
ScanFiles ==
    UNION {[text : {t}, stat_error : BOOLEAN,
            io_error_at : {None} \cup (0..MaxFaultAt),
            decode_error_at : [1..Len(encodings) -> 0..MaxFaultAt]] :
           t \in UNION {[1..n -> FileChars] : n \in 0..MaxFileLen}}

\* a read that fails is a read that happens: one that would return text
FaultsInReach(f, size) ==
    /\ f.io_error_at <= NumChunks(f.text, size)
    /\ \A e \in 1..Len(encodings) : f.decode_error_at[e] <= NumChunks(f.text, size)

\* a worker, not stopped, that looks for the letter a, and a call of scan_file
InitScan ==
    /\ NoPool
    /\ NoMatcher
    /\ worker = "set"
    /\ detached = 0
    /\ NoIncremental
    /\ gui = GuiRunning
    /\ max_results = 1
    /\ max_output_files = 1
    /\ time_range_hours = 1
    /\ stop_requested = FALSE
    /\ JobInit
    /\ keywords = <<[raw |-> <<"a">>, match_case |-> FALSE, whole_word |-> FALSE,
                     use_regex |-> FALSE]>>
    /\ line = <<>>
    /\ out = <<>>
    /\ line_pc = "idle"
    /\ file \in ScanFiles
    /\ \E size \in 1..MaxChunk : \E limit \in (MaxFileLen - 1)..MaxFileLen :
          /\ FaultsInReach(file, size)
          /\ scan = [pc |-> "call", enc |-> 1, reads |-> 0, buffer |-> <<>>, opened |-> 0,
                     log |-> <<>>, handed |-> <<>>, chunk_size |-> size,
                     max_file_size |-> limit]

NextScan ==
    \/ ScanBegin
    \/ ScanOpen
    \/ ScanRead

SpecScan == InitScan /\ [][NextScan]_vars

(***************************************************************************)
(* Properties of scan_file                                                 *)
(***************************************************************************)
\* C18: a file whose size is above max_file_size is never opened, its call
\* returns no record and logs the skip and nothing else; a file of exactly
\* max_file_size, or smaller, is opened; the call emits no signal and is
\* always at a step that goes on (the size check, an open, a read) or has
\* returned.
OversizeSkip ==
    /\ (~file.stat_error /\ Len(file.text) > scan.max_file_size) =>
          /\ scan.opened = 0
          /\ out = <<>>
          /\ scan.pc = "returned" => scan.log = <<"skipped">>
    /\ (scan.pc = "returned" /\ ~file.stat_error /\ file.io_error_at # 0
            /\ Len(file.text) <= scan.max_file_size) =>
          /\ scan.opened >= 1
          /\ "skipped" \notin {scan.log[i] : i \in 1..Len(scan.log)}
    /\ events.error = 0 /\ events.finished = 0
    /\ scan.pc \in {"call", "open", "read", "returned"}

\* a file one character above the limit has been skipped
OversizeSkipWitness ==
    /\ scan.pc = "returned"
    /\ ~file.stat_error
    /\ Len(file.text) = scan.max_file_size + 1
    /\ scan.log = <<"skipped">>
    /\ \E k \in 1..Len(file.text) : file.text[k] = "a"

\* what scan_file has logged
Logged == {scan.log[i] : i \in 1..Len(scan.log)}

\* C17: a call of scan_file in which the size check, open or a read has
\* raised returns no record.
FileFailureIsolated ==
    (scan.pc = "returned" /\ "error" \in Logged) => out = <<>>

\* the call has ended at a decoding failure under the last encoding, the
\* earlier encodings having failed before it
AllEncodingsFailed ==
    /\ scan.pc = "returned"
    /\ scan.enc = Len(encodings)
    /\ "error" \notin Logged
    /\ file.decode_error_at[scan.enc] = scan.reads + 1

\* C19: a file that fails to decode under every encoding, at whichever read
\* each failure occurs, contributes no record.
UndecodableFileEmpty ==
    AllEncodingsFailed => out = <<>>

\* the file is read without a fault: size check, open and every read succeed
\* and the first encoding decodes it
ReadsCleanly ==
    /\ ~file.stat_error
    /\ file.io_error_at = None
    /\ file.decode_error_at[1] = 0
    /\ Len(file.text) <= scan.max_file_size

\* C21: for every text and every chunk_size the lines for which scan_file
\* has called process_line, once it has returned from a file read without a
\* fault, are the lines of the file, in order; a chunk that ends on a line
\* end joins no two lines, and the buffer left at the end of the file is
\* processed.
LineReassembly ==
    (scan.pc = "returned" /\ ReadsCleanly) => scan.handed = SplitLines(file.text)

\* the call has returned after reading the file to its end under an encoding
\* later than the first, every earlier encoding having failed to decode
FellBack ==
    /\ scan.pc = "returned"
    /\ scan.enc > 1
    /\ file.decode_error_at[scan.enc] = 0
    /\ "error" \notin Logged
    /\ scan.opened = scan.enc

\* C37: when the file has been read to its end under a later encoding after
\* earlier encodings failed, the records returned are no more than the
\* matching lines of the file: no line contributes a record twice.
FallbackNoDuplicates ==
    FellBack => Len(out) <= Len(ProcessLines(keywords, SplitLines(file.text), <<>>))

(***************************************************************************)
(* The compilation of the keywords in analyze_combined_keywords (lines     *)
(* 1099-1111) for lists of keywords with their annotations and colors;     *)
(* a raw text is made of letters and parentheses.                          *)
(***************************************************************************)
PatternChars == {"a", "(", ")"}

\* annotation and color of a keyword, as the configuration gives them
Labels == {[annotation |-> "x", color |-> "#ffff99"],
           [annotation |-> "y", color |-> "#99ff99"]}

LabelledKeywords ==
    {[raw |-> r, annotation |-> l.annotation, match_case |-> mc, whole_word |-> ww,
      use_regex |-> uz, color |-> l.color] :
        r \in UNION {[1..n -> PatternChars] : n \in 1..MaxRawLen},
        l \in Labels, mc \in BOOLEAN, ww \in BOOLEAN, uz \in BOOLEAN}

\* all_kws: lists of keywords, lists with the same text twice among them
LabelledKeywordLists == UNION {[1..n -> LabelledKeywords] : n \in 1..MaxKeywords}

\* lines 1099-1111: parts, mapping and raw_list are built and the pattern
\* compiled, or the compilation fails and the handler returns
CompileKeywords ==
    /\ matcher.state = "new"
    /\ matcher' = IF Compiles(keywords) THEN Compiled(keywords)
                  ELSE [matcher EXCEPT !.state = "error"]
    /\ UNCHANGED <<config, pool_call, incremental, line_call, controller, scan_call, stop_requested,
                   executor, temp_files_info, result_truncated, pool, pc, all_results, idx,
                   entry_count, segment, output_files, close_site, temp_files,
                   final_files, events, stop_pc, stop_phase, written>>

\* the window with keywords checked and no analysis running, at the click
\* on the analysis button
InitCompile ==
    /\ NoScan
    /\ NoPool
    /\ worker = "none"
    /\ detached = 0
    /\ NoIncremental
    /\ gui = GuiIdle
    /\ max_results = 1
    /\ max_output_files = 1
    /\ time_range_hours = 1
    /\ stop_requested = FALSE
    /\ JobInit
    /\ keywords \in LabelledKeywordLists
    /\ line = <<>>
    /\ out = <<>>
    /\ line_pc = "idle"
    /\ matcher = [state |-> "new", pattern |-> <<>>, mapping |-> <<>>, raw_list |-> <<>>]

NextCompile == CompileKeywords

SpecCompile == InitCompile /\ [][NextCompile]_vars

\* C30: the pattern compiled from an ordered list of keywords has one
\* capture group per keyword and no other, the i-th group is the one
\* to_group named for the i-th keyword, the names differ from each other,
\* and the mapping gives under the name of the i-th group the annotation
\* and the color of the i-th keyword, also when two keywords have the same
\* text.
PositionalIdentity ==
    matcher.state = "compiled" =>
        LET groups == CaptureGroups(matcher.pattern) IN
        /\ Len(groups) = Len(keywords)
        /\ \A i \in 1..Len(groups) : groups[i] = <<"k", i - 1>>
        /\ \A i, j \in 1..Len(groups) : groups[i] = groups[j] => i = j
        /\ DOMAIN matcher.mapping = {groups[i] : i \in 1..Len(groups)}
        /\ \A i \in 1..Len(keywords) :
              /\ <<"k", i - 1>> \in DOMAIN matcher.mapping
              /\ matcher.mapping[<<"k", i - 1>>] =
                     [annotation |-> keywords[i].annotation, color |-> keywords[i].color]

(***************************************************************************)
(* The pool of run() (lines 308-309, 327) for any number of files and any  *)
(* value of spin_cores, its tasks counted by state: a ThreadPoolExecutor   *)
(* has at most max_workers threads, and a thread runs one task at a time.  *)
(***************************************************************************)
\* lines 308-309: the pool is created with dynamic_workers() threads at most
\* and every file submitted; ThreadPoolExecutor raises ValueError for a
\* max_workers below 1, which ends run() at line 390
PoolCreate ==
    /\ thread_pool.pc = "new"
    /\ LET size == PoolSize(thread_pool.max_workers, thread_pool.files) IN
       thread_pool' = IF size < 1
                      THEN [thread_pool EXCEPT !.pc = "failed", !.size = size]
                      ELSE [thread_pool EXCEPT !.pc = "submitted", !.size = size,
                                               !.queued = thread_pool.files]
    /\ UNCHANGED <<config, compile_call, incremental, line_call, controller, scan_call, stop_requested, executor,
                   temp_files_info, result_truncated, pool, pc, all_results, idx,
                   entry_count, segment, output_files, close_site, temp_files,
                   final_files, events, stop_pc, stop_phase, written>>

\* a thread of the pool, idle or newly created, takes a queued task
PoolTaskStart ==
    /\ thread_pool.pc = "submitted"
    /\ thread_pool.queued > 0
    /\ thread_pool.running < thread_pool.size
    /\ thread_pool' = [thread_pool EXCEPT !.queued = @ - 1, !.running = @ + 1]
    /\ UNCHANGED <<config, compile_call, incremental, line_call, controller, scan_call, stop_requested, executor,
                   temp_files_info, result_truncated, pool, pc, all_results, idx,
                   entry_count, segment, output_files, close_site, temp_files,
                   final_files, events, stop_pc, stop_phase, written>>

\* scan_file returns
PoolTaskFinish ==
    /\ thread_pool.pc = "submitted"
    /\ thread_pool.running > 0
    /\ thread_pool' = [thread_pool EXCEPT !.running = @ - 1, !.done = @ + 1]
    /\ UNCHANGED <<config, compile_call, incremental, line_call, controller, scan_call, stop_requested, executor,
                   temp_files_info, result_truncated, pool, pc, all_results, idx,
                   entry_count, segment, output_files, close_site, temp_files,
                   final_files, events, stop_pc, stop_phase, written>>

\* a job as analyze_combined_keywords starts it: the list of files is not
\* empty (lines 1064-1067) and spin_cores is at least 1 (line 641)
InitPool ==
    /\ NoScan
    /\ NoMatcher
    /\ worker = "set"
    /\ detached = 0
    /\ NoIncremental
    /\ gui = GuiRunning
    /\ max_results = 1
    /\ max_output_files = 1
    /\ time_range_hours = 1
    /\ stop_requested = FALSE
    /\ JobInit
    /\ keywords = <<>>
    /\ line = <<>>
    /\ out = <<>>
    /\ line_pc = "idle"
    /\ \E cores \in 1..MaxCores : \E n \in 1..MaxPoolFiles :
          thread_pool = [pc |-> "new", max_workers |-> cores, files |-> n, size |-> 0,
                         queued |-> 0, running |-> 0, done |-> 0]

NextPool ==
    \/ PoolCreate
    \/ PoolTaskStart
    \/ PoolTaskFinish

SpecPool == InitPool /\ [][NextPool]_vars

\* C26: the size of the pool is no larger than twice max_workers, than the
\* number of files and than 32, and is one of the three; it is at least 1,
\* so that the pool is created for every job that is started; and never
\* more tasks run at the same time than the size of the pool.
WorkerPoolBound ==
    thread_pool.pc # "new" =>
        /\ thread_pool.size <= 2 * thread_pool.max_workers
        /\ thread_pool.size <= thread_pool.files
        /\ thread_pool.size <= 32
        /\ thread_pool.size \in {2 * thread_pool.max_workers, thread_pool.files, 32}
        /\ thread_pool.size >= 1
        /\ thread_pool.pc = "submitted"
        /\ thread_pool.running <= thread_pool.size
        /\ thread_pool.queued + thread_pool.running + thread_pool.done = thread_pool.files

\* the ceiling binds: 32 tasks run, more are queued, and twice max_workers
\* is above 32
WorkerPoolBoundWitness ==
    /\ thread_pool.running = 32
    /\ thread_pool.queued >= 1
    /\ 2 * thread_pool.max_workers > 32
    /\ thread_pool.size = 32


(***************************************************************************)
(* The incremental engine of src/0424-loghightlight.py: analyze_combined,  *)
(* on_scan_result and cancel_analysis, run by the GUI thread, and one      *)
(* KeywordScanThread per keyword.  A keyword is its raw text, which the    *)
(* thread compiles as a regular expression; result_ready is a queued       *)
(* signal, delivered to on_scan_result in the order of emission.  Log      *)
(* files are present.                                                      *)
(***************************************************************************)
\* the keywords that can be selected: a letter, and an opening parenthesis,
\* which is no regular expression
SelectableKeywords == {<<"a">>, <<"(">>}

\* re.compile(self.keyword) (line 183) returns
CompilesRaw(kw) == Balanced([i \in 1..Len(kw) |-> RegexToken(kw[i])], 0)

\* KeywordScanThread.stop (lines 202-203) on the threads of the set T
StopThreads(T) == [t \in DOMAIN threads |->
                     IF t \in T THEN [threads[t] EXCEPT !._active = FALSE]
                     ELSE threads[t]]

\* the keywords of S in the order the for loop of line 512 takes them
RECURSIVE InSomeOrder(_)
InSomeOrder(S) ==
    IF S = {} THEN {<<>>}
    ELSE UNION {{<<k>> \o rest : rest \in InSomeOrder(S \ {k})} : k \in S}

\* analyze_combined (lines 483-516) with the set `current` selected: the
\* threads of the deselected keywords are stopped and their results dropped,
\* previous_keywords becomes current, and a thread is created, entered into
\* current_threads and started for every keyword newly selected
analyze_combined(current) ==
    LET to_add == current \ previous_keywords
        to_rem == previous_keywords \ current
        stopped == {current_threads[kw] : kw \in to_rem \cap DOMAIN current_threads}
    IN  /\ Len(threads) + Cardinality(to_add) <= MaxThreads
        /\ cached_results' = cached_results \ to_rem
        /\ previous_keywords' = current
        /\ \E order \in InSomeOrder(to_add) :
              /\ threads' = StopThreads(stopped) \o
                     [i \in 1..Len(order) |->
                         [keyword |-> order[i], _active |-> TRUE, pc |-> "running"]]
              /\ current_threads' =
                     [kw \in DOMAIN current_threads \cup to_add |->
                         IF kw \in to_add
                         THEN Len(threads) + (CHOOSE i \in 1..Len(order) : order[i] = kw)
                         ELSE current_threads[kw]]
        /\ UNCHANGED <<result_ready, html_output>>
        /\ UNCHANGED <<config, line_call, controller, scan_call, pool_call, compile_call,
                       stop_requested, executor, temp_files_info, result_truncated, pool,
                       pc, all_results, idx, entry_count, segment, output_files,
                       close_site, temp_files, final_files, events, stop_pc, stop_phase,
                       written>>

\* KeywordScanThread.run (lines 182-200) to its end: re.compile raises for a
\* keyword that is no regular expression and the thread ends; otherwise the
\* files are scanned and result_ready is emitted if _active is still set at
\* line 199
ThreadRun(t) ==
    /\ threads[t].pc = "running"
    /\ threads' = [threads EXCEPT ![t].pc = "ended"]
    /\ result_ready' = IF CompilesRaw(threads[t].keyword) /\ threads[t]._active
                       THEN Append(result_ready, threads[t].keyword)
                       ELSE result_ready
    /\ UNCHANGED <<previous_keywords, cached_results, current_threads, html_output>>
    /\ UNCHANGED <<config, line_call, controller, scan_call, pool_call, compile_call,
                   stop_requested, executor, temp_files_info, result_truncated, pool,
                   pc, all_results, idx, entry_count, segment, output_files,
                   close_site, temp_files, final_files, events, stop_pc, stop_phase,
                   written>>

\* on_scan_result (lines 518-524) for the signal at the head of the queue: the
\* results are cached, the entry of the keyword in current_threads removed,
\* and update_html_output (lines 531-573) writes the page from every entry of
\* cached_results
on_scan_result ==
    /\ result_ready # <<>>
    /\ LET keyword == Head(result_ready) IN
       /\ cached_results' = cached_results \cup {keyword}
       /\ current_threads' = [kw \in DOMAIN current_threads \ {keyword} |->
                                 current_threads[kw]]
       /\ html_output' = cached_results \cup {keyword}
    /\ result_ready' = Tail(result_ready)
    /\ UNCHANGED <<previous_keywords, threads>>
    /\ UNCHANGED <<config, line_call, controller, scan_call, pool_call, compile_call,
                   stop_requested, executor, temp_files_info, result_truncated, pool,
                   pc, all_results, idx, entry_count, segment, output_files,
                   close_site, temp_files, final_files, events, stop_pc, stop_phase,
                   written>>

\* cancel_analysis (lines 526-529): every thread of current_threads is stopped
\* and current_threads cleared
cancel_analysis ==
    /\ threads' = StopThreads({current_threads[kw] : kw \in DOMAIN current_threads})
    /\ current_threads' = <<>>
    /\ UNCHANGED <<previous_keywords, cached_results, result_ready, html_output>>
    /\ UNCHANGED <<config, line_call, controller, scan_call, pool_call, compile_call,
                   stop_requested, executor, temp_files_info, result_truncated, pool,
                   pc, all_results, idx, entry_count, segment, output_files,
                   close_site, temp_files, final_files, events, stop_pc, stop_phase,
                   written>>

\* the window as built, no ScanWorker in the picture
InitIncremental ==
    /\ NoScan
    /\ NoPool
    /\ NoMatcher
    /\ NoIncremental
    /\ worker = "none"
    /\ detached = 0
    /\ gui = GuiIdle
    /\ max_results = MaxResultsCfg
    /\ max_output_files = MaxOutputFilesCfg
    /\ time_range_hours = 1
    /\ stop_requested = FALSE
    /\ executor = "none"
    /\ temp_files_info = {}
    /\ result_truncated = FALSE
    /\ task_state = [f \in Files |-> "new"]
    /\ yielded = {}
    /\ pc = "not_started"
    /\ all_results = <<>>
    /\ idx = 1
    /\ entry_count = 0
    /\ current_segment_start = None
    /\ current_segment_end = None
    /\ current_temp_file = NoFile
    /\ output_files = <<>>
    /\ close_site = "none"
    /\ temp_files = <<>>
    /\ final_files = <<>>
    /\ events = [truncated |-> 0, capped |-> 0, error |-> 0, finished |-> 0,
                 error_text |-> "none"]
    /\ stop_pc = "idle"
    /\ stop_phase = "none"
    /\ written = 0
    /\ keywords = <<>>
    /\ line = <<>>
    /\ out = <<>>
    /\ line_pc = "idle"

NextIncremental ==
    \/ \E current \in SUBSET SelectableKeywords : analyze_combined(current)
    \/ \E t \in DOMAIN threads : ThreadRun(t)
    \/ on_scan_result
    \/ cancel_analysis

SpecIncremental == InitIncremental /\ [][NextIncremental]_vars

\* C38: the keys of cached_results are selected keywords, and the page holds
\* the matches of selected keywords only.
NoStaleResults ==
    /\ cached_results \subseteq previous_keywords
    /\ html_output \subseteq previous_keywords

\* the keyword has a thread in current_threads that is inside run() and not
\* stopped
Scanning(kw) ==
    /\ kw \in DOMAIN current_threads
    /\ threads[current_threads[kw]].pc = "running"
    /\ threads[current_threads[kw]]._active

\* the results of the keyword are emitted and on their way to on_scan_result
InFlight(kw) == \E i \in 1..Len(result_ready) : result_ready[i] = kw

\* C39: every selected keyword that is a regular expression has a cached
\* result, or results on their way, or a thread that is running and not
\* stopped.
NoKeywordLost ==
    \A kw \in previous_keywords :
        CompilesRaw(kw) => (kw \in cached_results \/ InFlight(kw) \/ Scanning(kw))

====
